---- MODULE Spec2Model ----
(***************************************************************************)
(* Model of autogradetm's reference Turing machine engine                  *)
(* (src/src/autogradetm/turing_machine.py): Tape, Configuration and        *)
(* TM.__call__.  Python lists are 0-indexed, TLA+ sequences 1-indexed, so  *)
(* the Python element s[i] is s[i + 1] here.  Strings are sequences of     *)
(* one-character strings.                                                  *)
(***************************************************************************)
EXTENDS Integers, Sequences, FiniteSets, TLC

VARIABLES tm, input, log_configs, tape, state, step, configs, outcome,
          tp, ops, last, call, ret, tm2, input2

vars == <<tm, input, log_configs, tape, state, step, configs, outcome,
          tp, ops, last, call, ret, tm2, input2>>

engineVars == <<tm, input, log_configs, tape, state, step, configs, outcome>>
tapeVars == <<tp, ops, last>>

\* call: the arguments of a call of TM.__post_init__, TM.from_spec or
\* Configuration.parse; ret: what the call returned or raised, once it ended.
pureVars == <<call, ret>>

\* tm2, input2: the machine definition and the input of the second call, where
\* two calls are made on machine definitions of their own.
secondVars == <<tm2, input2>>

----------------------------------------------------------------------------
(* Bounds of the model *)

\* Stands for the engine's ceiling of 1_000_000 steps (turing_machine.py:191),
\* scaled down so that runs reaching the ceiling are explored, and above the
\* ten steps the invert machine takes on an input of four characters.
StepBound == 11

\* Longest caller-supplied input string.
MaxInputLen == 2

\* Longest sequence of read/write/move operations applied to a free Tape.
MaxOps == 3

\* Longest input string of two interleaved calls.
MaxPairInputLen == 1

\* Longest input string of the calls whose termination is checked.
MaxFairInputLen == 1

\* Most items in the transition table of a candidate machine definition.
MaxRules == 2

\* Longest input of a run of a machine the constructor returned.
MaxBuiltInputLen == 2

\* Longest input of each of two calls on machine definitions of their own.
MaxMixedInputLen == 1

\* Longest input of a run of the invert machine.
MaxInvertInputLen == 4

\* Most lines in the transition section of a machine text.
MaxLines == 3

\* Most characters on either side of the brackets of a configuration text.
MaxPartLen == 2

\* Most characters on either side of the brackets of a text that gets one more
\* character put in.
MaxInsertPartLen == 1

----------------------------------------------------------------------------
(* Direction *)

L == -1
N == 0
R == 1
Direction == {L, N, R}

Blank == "B"

----------------------------------------------------------------------------
(* Sequence helpers standing for the Python built-ins the source uses *)

RECURSIVE Reversed(_)
Reversed(s) == IF s = <<>> THEN <<>> ELSE Append(Reversed(Tail(s)), Head(s))

\* itertools.islice(it, n) on a fresh iterator: the first n items
ISlice(s, n) == SubSeq(s, 1, IF n < Len(s) THEN n ELSE Len(s))

\* what an iterator still yields after n items were consumed from it
Rest(s, n) == SubSeq(s, (IF n < Len(s) THEN n ELSE Len(s)) + 1, Len(s))

RECURSIVE LStrip(_, _)
LStrip(s, c) == IF s # <<>> /\ Head(s) = c THEN LStrip(Tail(s), c) ELSE s

RECURSIVE RStrip(_, _)
RStrip(s, c) ==
    IF s # <<>> /\ s[Len(s)] = c THEN RStrip(SubSeq(s, 1, Len(s) - 1), c) ELSE s

RECURSIVE TakeWhile(_, _)
TakeWhile(S, s) ==
    IF s # <<>> /\ Head(s) \in S THEN <<Head(s)>> \o TakeWhile(S, Tail(s)) ELSE <<>>

Min(a, b) == IF a < b THEN a ELSE b
Max(a, b) == IF a > b THEN a ELSE b

----------------------------------------------------------------------------
(* Configuration *)

\* Configuration.__init__ followed by __post_init__
\* Mutant: only the left part is trimmed.
Configuration_KeepsRightBlanks(st, left, right) ==
    [state |-> st, left |-> LStrip(left, Blank), right |-> right]

Configuration(st, left, right) ==
    [state |-> st, left |-> LStrip(left, Blank), right |-> RStrip(right, Blank)]

----------------------------------------------------------------------------
(* Tape *)

TapeInit(inp) ==
    [_left |-> <<>>, _right |-> IF inp # <<>> THEN inp ELSE <<Blank>>, _pos |-> 0]

TapeRead(t) ==
    IF t._pos < 0 THEN t._left[(-t._pos - 1) + 1] ELSE t._right[t._pos + 1]

\* Mutant: the write fills the whole list the head is in.
TapeWrite_WholeSide(t, symbol) ==
    IF t._pos < 0
    THEN [t EXCEPT !._left = [i \in 1..Len(t._left) |-> symbol]]
    ELSE [t EXCEPT !._right = [i \in 1..Len(t._right) |-> symbol]]

TapeWrite(t, symbol) ==
    IF t._pos < 0
    THEN [t EXCEPT !._left[(-t._pos - 1) + 1] = symbol]
    ELSE [t EXCEPT !._right[t._pos + 1] = symbol]

\* Mutant: every move that is not Left is treated as Right.
TapeMove_NoNeutral(t, direction) ==
    LET pos == t._pos + (IF direction = L THEN -1 ELSE 1)
    IN  IF pos < -Len(t._left)
        THEN [t EXCEPT !._pos = pos, !._left = Append(t._left, Blank)]
        ELSE IF pos >= Len(t._right)
        THEN [t EXCEPT !._pos = pos, !._right = Append(t._right, Blank)]
        ELSE [t EXCEPT !._pos = pos]

\* Mutant: the right side grows one move too late (> for >=).
TapeMove_LateGrow(t, direction) ==
    LET pos == t._pos + direction
    IN  IF pos < -Len(t._left)
        THEN [t EXCEPT !._pos = pos, !._left = Append(t._left, Blank)]
        ELSE IF pos > Len(t._right)
        THEN [t EXCEPT !._pos = pos, !._right = Append(t._right, Blank)]
        ELSE [t EXCEPT !._pos = pos]

\* Mutant: a grown cell is filled with "_" instead of the blank symbol.
TapeMove_WrongBlank(t, direction) ==
    LET pos == t._pos + direction
    IN  IF pos < -Len(t._left)
        THEN [t EXCEPT !._pos = pos, !._left = Append(t._left, "_")]
        ELSE IF pos >= Len(t._right)
        THEN [t EXCEPT !._pos = pos, !._right = Append(t._right, "_")]
        ELSE [t EXCEPT !._pos = pos]

\* Mutant: the right side grows one move too early (a cell is kept in reserve).
TapeMove_EagerGrow(t, direction) ==
    LET pos == t._pos + direction
    IN  IF pos < -Len(t._left)
        THEN [t EXCEPT !._pos = pos, !._left = Append(t._left, Blank)]
        ELSE IF pos >= Len(t._right) - 1
        THEN [t EXCEPT !._pos = pos, !._right = Append(t._right, Blank)]
        ELSE [t EXCEPT !._pos = pos]

TapeMove(t, direction) ==
    LET pos == t._pos + direction
    IN  IF pos < -Len(t._left)
        THEN [t EXCEPT !._pos = pos, !._left = Append(t._left, Blank)]
        ELSE IF pos >= Len(t._right)
        THEN [t EXCEPT !._pos = pos, !._right = Append(t._right, Blank)]
        ELSE [t EXCEPT !._pos = pos]

\* Mutant: _left is walked from its first item instead of reversed.
TapeSplit_Unreversed(t) ==
    LET left == t._left
        right == t._right
        nl == Len(t._left) + Min(t._pos, 0)
        nr == Max(t._pos, 0)
    IN  [left_of_head |-> ISlice(left, nl) \o ISlice(right, nr),
         right_of_head |-> Rest(left, nl) \o Rest(right, nr)]

\* lines 101-106: left_of_head and right_of_head, the second taking what the
\* first left in the two iterators
TapeSplit(t) ==
    LET left == Reversed(t._left)
        right == t._right
        nl == Len(t._left) + Min(t._pos, 0)
        nr == Max(t._pos, 0)
    IN  [left_of_head |-> ISlice(left, nl) \o ISlice(right, nr),
         right_of_head |-> Rest(left, nl) \o Rest(right, nr)]

\* lines 100-111
TapeConfiguration(t, st) ==
    Configuration(st, TapeSplit(t).left_of_head, TapeSplit(t).right_of_head)

\* Mutant: the cells at negative positions are left out.
TapeReadRight_FromRight(t) == SubSeq(t._right, Max(t._pos, 0) + 1, Len(t._right))

\* Mutant: the scan starts at the cell right of the head.
TapeReadRight_AfterHead(t) ==
    LET k == -Min(t._pos + 1, 0)
    IN  [i \in 1..k |-> t._left[(k - i) + 1]]
        \o SubSeq(t._right, Max(t._pos + 1, 0) + 1, Len(t._right))

\* range(-min(pos, 0) - 1, -1, -1) over _left, then range(max(pos, 0), len) over _right
TapeReadRight(t) ==
    LET k == -Min(t._pos, 0)
    IN  [i \in 1..k |-> t._left[(k - i) + 1]]
        \o SubSeq(t._right, Max(t._pos, 0) + 1, Len(t._right))

----------------------------------------------------------------------------
(* Machine definitions the runs are made on *)

InputAlphabet == {"0"}
TapeAlphabet == {"0", "1", Blank}

\* Characters a caller may put in an input string: the engine takes any string,
\* so the blank, a tape-only symbol and a character outside the tape alphabet
\* are included.
InputChars == {"0", "1", Blank, "x"}

RECURSIVE Strings(_, _)
Strings(S, n) ==
    IF n = 0 THEN {<<>>}
    ELSE LET shorter == Strings(S, n - 1)
         IN  shorter \cup {Append(s, c) : s \in {u \in shorter : Len(u) = n - 1}, c \in S}

\* Every input of up to MaxInputLen characters, and the inputs "0" * k long
\* enough for a walk over them to reach the ceiling.
Inputs ==
    Strings(InputChars, MaxInputLen) \cup {[i \in 1..k |-> "0"] : k \in 0..StepBound}

NoRule == <<>>

\* Candidate table entries for state 1, and the fixed table of state 2.
\* State 3 is the halting state.
Rules1 == {<<1, "0", L>>, <<1, "1", R>>, <<2, Blank, N>>, <<3, "0", N>>, NoRule}
Rules2 == (<<2, "0">> :> <<1, "1", R>>) @@ (<<2, Blank>> :> <<3, "0", L>>)

TransOf(c) ==
    [k \in {<<1, a>> : a \in {b \in TapeAlphabet : c[b] # NoRule}} \cup DOMAIN Rules2
        |-> IF k[1] = 1 THEN c[k[2]] ELSE Rules2[k]]

Machine(c, s) ==
    [num_states |-> 3, trans |-> TransOf(c), input_alphabet |-> InputAlphabet,
     tape_alphabet |-> TapeAlphabet, start |-> s, end |-> 3]

\* Every table over Rules1 started in state 1, and one machine whose start
\* state is its halting state.
Machines ==
    {Machine(c, 1) : c \in [TapeAlphabet -> Rules1]}
        \cup {Machine([a \in TapeAlphabet |-> NoRule], 3)}

----------------------------------------------------------------------------
(* TM.__call__ *)

Runs == {1, 2}

NoTrace == <<>>
NoKey == <<>>

NotStarted == [kind |-> "NotStarted", res |-> <<>>, key |-> NoKey, configs |-> NoTrace]
Running == [kind |-> "Running", res |-> <<>>, key |-> NoKey, configs |-> NoTrace]

\* return (res, configs) if log_configs else res
Returned(res, log, cfs) ==
    [kind |-> "Halted", res |-> res, key |-> NoKey,
     configs |-> IF log THEN cfs ELSE NoTrace]

\* Mutant: the KeyError is always re-raised as it is, without the trace.
RaisedKeyError_Bare(key, log, cfs) ==
    [kind |-> "UndefinedTransition", res |-> <<>>, key |-> key, configs |-> NoTrace]

\* raise KeyError(*e.args, configs) if log_configs else re-raise
RaisedKeyError(key, log, cfs) ==
    [kind |-> "UndefinedTransition", res |-> <<>>, key |-> key,
     configs |-> IF log THEN cfs ELSE NoTrace]

\* raise TimeoutError(configs) if log_configs else TimeoutError
RaisedTimeoutError(log, cfs) ==
    [kind |-> "StepBoundExceeded", res |-> <<>>, key |-> NoKey,
     configs |-> IF log THEN cfs ELSE NoTrace]

\* Mutant: the ceiling is tested with > instead of >=.
StepLimitReached_After(n) == n > StepBound

\* if step >= 1_000_000
StepLimitReached(n) == n >= StepBound

\* "".join(takewhile(self.input_alphabet.__contains__, tape.read_right()))
Output(m, t) == TakeWhile(m.input_alphabet, TapeReadRight(t))

\* Mutant: the trace starts empty instead of holding the initial configuration.
Call_NoInitialConfig(r) ==
    /\ outcome[r].kind = "NotStarted"
    /\ tape' = [tape EXCEPT ![r] = TapeInit(input)]
    /\ state' = [state EXCEPT ![r] = tm.start]
    /\ step' = [step EXCEPT ![r] = 0]
    /\ configs' = [configs EXCEPT ![r] = <<>>]
    /\ outcome' = [outcome EXCEPT ![r] = Running]
    /\ UNCHANGED <<tm, input, log_configs, tapeVars, pureVars, secondVars>>

\* Mutant: the tape is kept with the machine, so a call made while another
\* call is under way starts from that call's tape.
Call_SharedTape(r) ==
    /\ outcome[r].kind = "NotStarted"
    /\ tape' = [tape EXCEPT ![r] =
                  IF \E o \in Runs : outcome[o].kind # "NotStarted"
                  THEN tape[CHOOSE o \in Runs : outcome[o].kind # "NotStarted"]
                  ELSE TapeInit(input)]
    /\ state' = [state EXCEPT ![r] = tm.start]
    /\ step' = [step EXCEPT ![r] = 0]
    /\ configs' = [configs EXCEPT ![r] = <<TapeConfiguration(TapeInit(input), tm.start)>>]
    /\ outcome' = [outcome EXCEPT ![r] = Running]
    /\ UNCHANGED <<tm, input, log_configs, tapeVars, pureVars, secondVars>>

\* lines 176-179: the locals of a fresh call
Call(r) ==
    /\ outcome[r].kind = "NotStarted"
    /\ tape' = [tape EXCEPT ![r] = TapeInit(input)]
    /\ state' = [state EXCEPT ![r] = tm.start]
    /\ step' = [step EXCEPT ![r] = 0]
    /\ configs' = [configs EXCEPT ![r] = <<TapeConfiguration(TapeInit(input), tm.start)>>]
    /\ outcome' = [outcome EXCEPT ![r] = Running]
    /\ UNCHANGED <<tm, input, log_configs, tapeVars, pureVars, secondVars>>

\* the while condition is false: lines 198-199
Halt(r) ==
    /\ outcome[r].kind = "Running"
    /\ state[r] = tm.end
    /\ outcome' = [outcome EXCEPT
                     ![r] = Returned(Output(tm, tape[r]), log_configs[r], configs[r])]
    /\ UNCHANGED <<tm, input, log_configs, tape, state, step, configs, tapeVars, pureVars, secondVars>>

\* the table lookup raises KeyError: lines 182-187
Undefined(r) ==
    LET key == <<state[r], TapeRead(tape[r])>>
    IN  /\ outcome[r].kind = "Running"
        /\ state[r] # tm.end
        /\ key \notin DOMAIN tm.trans
        /\ outcome' = [outcome EXCEPT
                         ![r] = RaisedKeyError(key, log_configs[r], configs[r])]
        /\ UNCHANGED <<tm, input, log_configs, tape, state, step, configs, tapeVars, pureVars, secondVars>>

\* Mutant: the trace entry of a step is made with the state the step left.
Step_StaleState(r) ==
    LET key == <<state[r], TapeRead(tape[r])>>
    IN  /\ outcome[r].kind = "Running"
        /\ state[r] # tm.end
        /\ key \in DOMAIN tm.trans
        /\ LET next == tm.trans[key]
               t1 == TapeMove(TapeWrite(tape[r], next[2]), next[3])
           IN  /\ state' = [state EXCEPT ![r] = next[1]]
               /\ tape' = [tape EXCEPT ![r] = t1]
               /\ step' = [step EXCEPT ![r] = step[r] + 1]
               /\ IF StepLimitReached(step[r] + 1)
                  THEN /\ outcome' = [outcome EXCEPT
                                        ![r] = RaisedTimeoutError(log_configs[r], configs[r])]
                       /\ UNCHANGED configs
                  ELSE /\ configs' = [configs EXCEPT ![r] =
                                        IF log_configs[r]
                                        THEN Append(configs[r], TapeConfiguration(t1, state[r]))
                                        ELSE configs[r]]
                       /\ UNCHANGED outcome
        /\ UNCHANGED <<tm, input, log_configs, tapeVars, pureVars, secondVars>>

\* Mutant: the ceiling is a deadline on the clock, which may pass at any step
\* of a call, so how a call ends depends on when it was run.
Step_DeadlineOnClock(r) ==
    LET key == <<state[r], TapeRead(tape[r])>>
    IN  /\ outcome[r].kind = "Running"
        /\ state[r] # tm.end
        /\ key \in DOMAIN tm.trans
        /\ LET next == tm.trans[key]
               t1 == TapeMove(TapeWrite(tape[r], next[2]), next[3])
           IN  /\ state' = [state EXCEPT ![r] = next[1]]
               /\ tape' = [tape EXCEPT ![r] = t1]
               /\ step' = [step EXCEPT ![r] = step[r] + 1]
               /\ \E passed \in BOOLEAN :
                     IF passed \/ StepLimitReached(step[r] + 1)
                     THEN /\ outcome' = [outcome EXCEPT
                                           ![r] = RaisedTimeoutError(log_configs[r], configs[r])]
                          /\ UNCHANGED configs
                     ELSE /\ configs' = [configs EXCEPT ![r] =
                                           IF log_configs[r]
                                           THEN Append(configs[r], TapeConfiguration(t1, next[1]))
                                           ELSE configs[r]]
                          /\ UNCHANGED outcome
        /\ UNCHANGED <<tm, input, log_configs, tapeVars, pureVars, secondVars>>

\* Mutant: a recorded call tests the ceiling on the length of its trace.
Step_CeilingOnTrace(r) ==
    LET key == <<state[r], TapeRead(tape[r])>>
    IN  /\ outcome[r].kind = "Running"
        /\ state[r] # tm.end
        /\ key \in DOMAIN tm.trans
        /\ LET next == tm.trans[key]
               t1 == TapeMove(TapeWrite(tape[r], next[2]), next[3])
           IN  /\ state' = [state EXCEPT ![r] = next[1]]
               /\ tape' = [tape EXCEPT ![r] = t1]
               /\ step' = [step EXCEPT ![r] = step[r] + 1]
               /\ IF StepLimitReached(IF log_configs[r] THEN Len(configs[r]) + 1
                                                        ELSE step[r] + 1)
                  THEN /\ outcome' = [outcome EXCEPT
                                        ![r] = RaisedTimeoutError(log_configs[r], configs[r])]
                       /\ UNCHANGED configs
                  ELSE /\ configs' = [configs EXCEPT ![r] =
                                        IF log_configs[r]
                                        THEN Append(configs[r], TapeConfiguration(t1, next[1]))
                                        ELSE configs[r]]
                       /\ UNCHANGED outcome
        /\ UNCHANGED <<tm, input, log_configs, tapeVars, pureVars, secondVars>>

\* one iteration of the loop body with a table entry: lines 182, 188-197
Step(r) ==
    LET key == <<state[r], TapeRead(tape[r])>>
    IN  /\ outcome[r].kind = "Running"
        /\ state[r] # tm.end
        /\ key \in DOMAIN tm.trans
        /\ LET next == tm.trans[key]
               t1 == TapeMove(TapeWrite(tape[r], next[2]), next[3])
           IN  /\ state' = [state EXCEPT ![r] = next[1]]
               /\ tape' = [tape EXCEPT ![r] = t1]
               /\ step' = [step EXCEPT ![r] = step[r] + 1]
               /\ IF StepLimitReached(step[r] + 1)
                  THEN /\ outcome' = [outcome EXCEPT
                                        ![r] = RaisedTimeoutError(log_configs[r], configs[r])]
                       /\ UNCHANGED configs
                  ELSE /\ configs' = [configs EXCEPT ![r] =
                                        IF log_configs[r]
                                        THEN Append(configs[r], TapeConfiguration(t1, next[1]))
                                        ELSE configs[r]]
                       /\ UNCHANGED outcome
        /\ UNCHANGED <<tm, input, log_configs, tapeVars, pureVars, secondVars>>

RunNext(r) == Call(r) \/ Halt(r) \/ Undefined(r) \/ Step(r)

\* Before the call the locals do not exist; they are given fixed values.
InitRuns ==
    /\ tape = [r \in Runs |-> TapeInit(<<>>)]
    /\ state = [r \in Runs |-> 0]
    /\ step = [r \in Runs |-> 0]
    /\ configs = [r \in Runs |-> <<>>]
    /\ outcome = [r \in Runs |-> NotStarted]

\* No second machine definition: the second call, if any, is made on tm.
InitSecondIdle ==
    /\ tm2 = tm
    /\ input2 = input

InitTapeIdle ==
    /\ tp = TapeInit(<<>>)
    /\ ops = 0
    /\ last = Blank

NoCall == [fn |-> "none"]
NoReturn == [ok |-> FALSE, raised |-> "pending"]

InitPureIdle ==
    /\ call = NoCall
    /\ ret = NoReturn

\* One call of one machine on one input.
Init ==
    /\ tm \in Machines
    /\ input \in Inputs
    /\ log_configs \in [Runs -> BOOLEAN]
    /\ log_configs[2] = TRUE
    /\ InitRuns
    /\ InitSecondIdle
    /\ InitTapeIdle
    /\ InitPureIdle

Next == RunNext(1)

Spec == Init /\ [][Next]_vars

\* One call on a short input.  The engine is synchronous and single-threaded:
\* a call that was made keeps running until it returns or raises.
InitFair ==
    /\ Init
    /\ Len(input) <= MaxFairInputLen

FairSpec == InitFair /\ [][Next]_vars /\ WF_vars(Next)

----------------------------------------------------------------------------
(* Two calls of the same machine on the same input, interleaved step by step *)

PairInputs == Strings(InputChars, MaxPairInputLen)

InitPair ==
    /\ tm \in Machines
    /\ input \in PairInputs
    /\ log_configs \in [Runs -> BOOLEAN]
    /\ log_configs[2] = TRUE
    /\ InitRuns
    /\ InitSecondIdle
    /\ InitTapeIdle
    /\ InitPureIdle

NextPair == \E r \in Runs : RunNext(r)

SpecPair == InitPair /\ [][NextPair]_vars

----------------------------------------------------------------------------
(* Two calls on machine definitions and inputs of their own, interleaved step
   by step: call 1 runs tm on input, call 2 runs tm2 on input2 *)

\* lines 176-179 for the call on tm2
Call2 ==
    /\ outcome[2].kind = "NotStarted"
    /\ tape' = [tape EXCEPT ![2] = TapeInit(input2)]
    /\ state' = [state EXCEPT ![2] = tm2.start]
    /\ step' = [step EXCEPT ![2] = 0]
    /\ configs' = [configs EXCEPT ![2] = <<TapeConfiguration(TapeInit(input2), tm2.start)>>]
    /\ outcome' = [outcome EXCEPT ![2] = Running]
    /\ UNCHANGED <<tm, input, log_configs, tapeVars, pureVars, secondVars>>

\* lines 198-199 for the call on tm2
Halt2 ==
    /\ outcome[2].kind = "Running"
    /\ state[2] = tm2.end
    /\ outcome' = [outcome EXCEPT
                     ![2] = Returned(Output(tm2, tape[2]), log_configs[2], configs[2])]
    /\ UNCHANGED <<tm, input, log_configs, tape, state, step, configs, tapeVars,
                   pureVars, secondVars>>

\* lines 182-187 for the call on tm2
Undefined2 ==
    LET key == <<state[2], TapeRead(tape[2])>>
    IN  /\ outcome[2].kind = "Running"
        /\ state[2] # tm2.end
        /\ key \notin DOMAIN tm2.trans
        /\ outcome' = [outcome EXCEPT
                         ![2] = RaisedKeyError(key, log_configs[2], configs[2])]
        /\ UNCHANGED <<tm, input, log_configs, tape, state, step, configs, tapeVars,
                       pureVars, secondVars>>

\* lines 182, 188-197 for the call on tm2
Step2 ==
    LET key == <<state[2], TapeRead(tape[2])>>
    IN  /\ outcome[2].kind = "Running"
        /\ state[2] # tm2.end
        /\ key \in DOMAIN tm2.trans
        /\ LET next == tm2.trans[key]
               t1 == TapeMove(TapeWrite(tape[2], next[2]), next[3])
           IN  /\ state' = [state EXCEPT ![2] = next[1]]
               /\ tape' = [tape EXCEPT ![2] = t1]
               /\ step' = [step EXCEPT ![2] = step[2] + 1]
               /\ IF StepLimitReached(step[2] + 1)
                  THEN /\ outcome' = [outcome EXCEPT
                                        ![2] = RaisedTimeoutError(log_configs[2], configs[2])]
                       /\ UNCHANGED configs
                  ELSE /\ configs' = [configs EXCEPT ![2] =
                                        IF log_configs[2]
                                        THEN Append(configs[2], TapeConfiguration(t1, next[1]))
                                        ELSE configs[2]]
                       /\ UNCHANGED outcome
        /\ UNCHANGED <<tm, input, log_configs, tapeVars, pureVars, secondVars>>

\* Machine definitions of the two calls: one that rewrites and halts, one that
\* never halts, one that walks left into an undefined transition, one that
\* halts at once and one whose start state is its halting state.
\* A machine that moves the head one cell in direction out and one cell in
\* direction back, writing what it reads, and halts.
ThereAndBack(out, back) ==
    [num_states |-> 3,
     trans |-> [k \in {1, 2} \X TapeAlphabet |->
                  IF k[1] = 1 THEN <<2, k[2], out>> ELSE <<3, k[2], back>>],
     input_alphabet |-> InputAlphabet, tape_alphabet |-> TapeAlphabet,
     start |-> 1, end |-> 3]

MixedMachines ==
    {Machine(("0" :> <<1, "1", R>>) @@ ("1" :> <<3, "0", N>>) @@ (Blank :> <<2, Blank, N>>), 1),
     Machine(("0" :> <<1, "1", R>>) @@ ("1" :> <<1, "1", R>>) @@ (Blank :> <<1, "0", L>>), 1),
     Machine(("0" :> <<1, "0", L>>) @@ ("1" :> NoRule) @@ (Blank :> NoRule), 1),
     Machine(("0" :> <<3, "0", N>>) @@ ("1" :> <<1, "0", L>>) @@ (Blank :> NoRule), 1),
     Machine([a \in TapeAlphabet |-> NoRule], 3),
     ThereAndBack(R, L),
     ThereAndBack(L, R)}

MixedInputs == Strings({"0", "1"}, MaxMixedInputLen)

InitMixed ==
    /\ tm \in MixedMachines
    /\ tm2 \in MixedMachines
    /\ input \in MixedInputs
    /\ input2 \in MixedInputs
    /\ log_configs \in [Runs -> BOOLEAN]
    /\ InitRuns
    /\ InitTapeIdle
    /\ InitPureIdle

NextMixed == RunNext(1) \/ Call2 \/ Halt2 \/ Undefined2 \/ Step2

SpecMixed == InitMixed /\ [][NextMixed]_vars

----------------------------------------------------------------------------
(* A Tape driven directly by any sequence of read, write and move *)

TRead ==
    /\ ops < MaxOps
    /\ last' = TapeRead(tp)
    /\ ops' = ops + 1
    /\ UNCHANGED <<tp, engineVars, pureVars, secondVars>>

TWrite(symbol) ==
    /\ ops < MaxOps
    /\ tp' = TapeWrite(tp, symbol)
    /\ ops' = ops + 1
    /\ UNCHANGED <<last, engineVars, pureVars, secondVars>>

TMove(direction) ==
    /\ ops < MaxOps
    /\ tp' = TapeMove(tp, direction)
    /\ ops' = ops + 1
    /\ UNCHANGED <<last, engineVars, pureVars, secondVars>>

InitTape ==
    /\ tm = Machine([a \in TapeAlphabet |-> NoRule], 3)
    /\ input \in Inputs
    /\ log_configs = [r \in Runs |-> TRUE]
    /\ InitRuns
    /\ InitSecondIdle
    /\ tp = TapeInit(input)
    /\ ops = 0
    /\ last = Blank
    /\ InitPureIdle

NextTape ==
    \/ TRead
    \/ \E symbol \in TapeAlphabet : TWrite(symbol)
    \/ \E direction \in Direction : TMove(direction)

SpecTape == InitTape /\ [][NextTape]_vars

----------------------------------------------------------------------------
(* TM.__post_init__: construction of a machine definition *)

\* The arguments are the dataclass fields; trans is the dict as the sequence
\* of its items <<state, symbol, tar, write, direction>> in insertion order.

Raised(exc, what) == [ok |-> FALSE, raised |-> exc, failed |-> what]

\* Mutant: the blank symbol is not added to the tape alphabet.
EffectiveTapeAlphabet_NoBlank(a) ==
    IF ~(a.input_alphabet \subseteq a.tape_alphabet
         /\ a.input_alphabet # a.tape_alphabet)
    THEN a.tape_alphabet \cup a.input_alphabet
    ELSE a.tape_alphabet

\* lines 135-138: tape_alphabet |= input_alphabet unless input < tape, then add "B"
EffectiveTapeAlphabet(a) ==
    LET t1 == IF ~(a.input_alphabet \subseteq a.tape_alphabet
                   /\ a.input_alphabet # a.tape_alphabet)
              THEN a.tape_alphabet \cup a.input_alphabet
              ELSE a.tape_alphabet
    IN  IF Blank \notin t1 THEN t1 \cup {Blank} ELSE t1

\* lines 140-144: the first assertion one item of the table fails, or "none"
ItemFailure(a, ta, it) ==
    IF ~(it[1] # a.end) THEN "transition_from_end"
    ELSE IF ~(it[1] <= a.num_states) THEN "transition_from_state"
    ELSE IF ~(it[2] \in ta) THEN "transition_from_symbol"
    ELSE IF ~(it[3] <= a.num_states) THEN "transition_to_state"
    ELSE IF ~(it[4] \in ta) THEN "transition_write"
    ELSE "none"

\* line 139: the loop over trans.items() stops at the first failing assertion
RECURSIVE TransFailure(_, _, _)
TransFailure(a, ta, items) ==
    IF items = <<>> THEN "none"
    ELSE IF ItemFailure(a, ta, Head(items)) # "none"
    THEN ItemFailure(a, ta, Head(items))
    ELSE TransFailure(a, ta, Tail(items))

TransTable(items) ==
    [k \in {<<items[i][1], items[i][2]>> : i \in DOMAIN items} |->
        LET i == CHOOSE j \in DOMAIN items : <<items[j][1], items[j][2]>> = k
        IN  <<items[i][3], items[i][4], items[i][5]>>]

\* lines 131-144
TMPostInit(a) ==
    LET ta == EffectiveTapeAlphabet(a)
    IN  IF ~(a.start <= a.num_states) THEN Raised("AssertionError", "start")
        ELSE IF ~(a.end <= a.num_states) THEN Raised("AssertionError", "end")
        ELSE IF ~(Blank \notin a.input_alphabet)
        THEN Raised("AssertionError", "blank_in_input")
        ELSE IF TransFailure(a, ta, a.trans) # "none"
        THEN Raised("AssertionError", TransFailure(a, ta, a.trans))
        ELSE [ok |-> TRUE,
              tm |-> [num_states |-> a.num_states, trans |-> TransTable(a.trans),
                      input_alphabet |-> a.input_alphabet, tape_alphabet |-> ta,
                      start |-> a.start, end |-> a.end]]

\* Items a candidate table is made of: a well-formed one and ones that break
\* one rule each (for num_states = 2).
CtorItems ==
    {<<1, "0", 2, "1", R>>, <<2, "0", 1, "0", L>>, <<3, "0", 1, "0", N>>,
     <<0, "0", 1, "0", N>>, <<1, "y", 1, "0", N>>, <<1, "1", 3, "0", N>>,
     <<1, Blank, 0, "0", N>>, <<1, "1", 1, "y", N>>}

\* The item sequences a dict can hold: no key twice.
RECURSIVE ItemSeqs(_, _)
ItemSeqs(S, n) ==
    IF n = 0 THEN {<<>>}
    ELSE LET shorter == ItemSeqs(S, n - 1)
         IN  shorter \cup
             {Append(q, it) : q \in {u \in shorter : Len(u) = n - 1},
                              it \in S}

UniqueKeys(items) ==
    \A i, j \in DOMAIN items :
        (items[i][1] = items[j][1] /\ items[i][2] = items[j][2]) => i = j

CtorArgs ==
    {[num_states |-> 2, trans |-> q, input_alphabet |-> ia, tape_alphabet |-> ta,
      start |-> s, end |-> e]
        : q \in {u \in ItemSeqs(CtorItems, MaxRules) : UniqueKeys(u)},
          ia \in {{"0"}, {"0", Blank}, {"0", "1"}},
          ta \in {{"0", "1", Blank}, {"0", Blank}, {"0", "1"}, {"0"}},
          s \in {0, 1, 3},
          e \in {0, 2, 3}}

Construct ==
    /\ call.fn = "TM.__post_init__"
    /\ ret = NoReturn
    /\ ret' = TMPostInit(call.args)
    /\ UNCHANGED <<call, engineVars, tapeVars, secondVars>>

InitCtor ==
    /\ tm = Machine([a \in TapeAlphabet |-> NoRule], 3)
    /\ input = <<>>
    /\ log_configs = [r \in Runs |-> TRUE]
    /\ InitRuns
    /\ InitSecondIdle
    /\ InitTapeIdle
    /\ call \in {[fn |-> "TM.__post_init__", args |-> a] : a \in CtorArgs}
    /\ ret = NoReturn

NextCtor == Construct

SpecCtor == InitCtor /\ [][NextCtor]_vars

----------------------------------------------------------------------------
(* TM.from_spec: a machine definition from its text *)

\* Text is a sequence of characters, each a one-character string.

NL == "\n"

DigitVal ==
    ("0" :> 0) @@ ("1" :> 1) @@ ("2" :> 2) @@ ("3" :> 3) @@ ("4" :> 4)
    @@ ("5" :> 5) @@ ("6" :> 6) @@ ("7" :> 7) @@ ("8" :> 8) @@ ("9" :> 9)

IsDigit(c) == c \in DOMAIN DigitVal

\* "".join(chars)
RECURSIVE Str(_)
Str(chars) == IF chars = <<>> THEN "" ELSE Head(chars) \o Str(Tail(chars))

\* str.split(sep) with a one-character separator: the pieces between one
\* separator, or an end of the string, and the next
SplitOn(s, sep) ==
    LET at   == SelectSeq([i \in 1..Len(s) |-> i], LAMBDA i : s[i] = sep)
        cuts == <<0>> \o at \o <<Len(s) + 1>>
    IN  [k \in 1..(Len(cuts) - 1) |-> SubSeq(s, cuts[k] + 1, cuts[k + 1] - 1)]

\* str.splitlines(), for text whose only line boundary is "\n"
SplitLines(s) ==
    LET p == SplitOn(s, NL)
    IN  IF p[Len(p)] = <<>> THEN SubSeq(p, 1, Len(p) - 1) ELSE p

RECURSIVE DigitsVal(_)
DigitsVal(ds) ==
    IF ds = <<>> THEN 0
    ELSE 10 * DigitsVal(SubSeq(ds, 1, Len(ds) - 1)) + DigitVal[ds[Len(ds)]]

\* int(field) for a field without whitespace or underscores: an optional
\* sign, then decimal digits
IntParse(f) ==
    LET signed == f # <<>> /\ f[1] \in {"-", "+"}
        body   == IF signed THEN Tail(f) ELSE f
    IN  IF body # <<>> /\ \A i \in DOMAIN body : IsDigit(body[i])
        THEN [ok |-> TRUE,
              val |-> IF signed /\ f[1] = "-" THEN 0 - DigitsVal(body)
                      ELSE DigitsVal(body)]
        ELSE [ok |-> FALSE]

\* lines 17-22
DirectionParse(f) ==
    IF f = <<"L">> THEN [ok |-> TRUE, val |-> L]
    ELSE IF f = <<"N">> THEN [ok |-> TRUE, val |-> N]
    ELSE IF f = <<"R">> THEN [ok |-> TRUE, val |-> R]
    ELSE [ok |-> FALSE]

\* line 150: line.startswith(("#", "/")) or not line
SkippedLine(line) == line = <<>> \/ line[1] \in {"#", "/"}

\* lines 152-153: the dict item one line stands for, when its fields unpack
\* and convert
RuleOfLine(line) ==
    LET fields    == SplitOn(line, " ")
        in_state  == IntParse(fields[1])
        out_state == IntParse(fields[3])
        dir       == DirectionParse(fields[5])
    IN  IF Len(fields) < 5 THEN [ok |-> FALSE]
        ELSE IF ~out_state.ok \/ ~dir.ok \/ ~in_state.ok THEN [ok |-> FALSE]
        ELSE [ok |-> TRUE,
              item |-> <<in_state.val, Str(fields[2]), out_state.val,
                         Str(fields[4]), dir.val>>]

\* Mutant: an entry once set is kept.
DictSet_KeepFirst(items, it) ==
    IF \E i \in DOMAIN items : items[i][1] = it[1] /\ items[i][2] = it[2]
    THEN items
    ELSE Append(items, it)

\* line 153: trans[key] = value; a key already present keeps its place in the
\* dict's order and takes the new value
DictSet(items, it) ==
    IF \E i \in DOMAIN items : items[i][1] = it[1] /\ items[i][2] = it[2]
    THEN [i \in DOMAIN items |->
             IF items[i][1] = it[1] /\ items[i][2] = it[2] THEN it ELSE items[i]]
    ELSE Append(items, it)

\* lines 149-153: the loop over trans_graph
RECURSIVE TransOfLines(_, _)
TransOfLines(trans_graph, items) ==
    IF trans_graph = <<>> THEN [ok |-> TRUE, items |-> items]
    ELSE IF SkippedLine(Head(trans_graph))
    THEN TransOfLines(Tail(trans_graph), items)
    ELSE IF ~RuleOfLine(Head(trans_graph)).ok THEN [ok |-> FALSE]
    ELSE TransOfLines(Tail(trans_graph),
                      DictSet(items, RuleOfLine(Head(trans_graph)).item))

\* set(line)
CharSet(line) == {line[i] : i \in DOMAIN line}

\* lines 146-162
FromSpec(spec) ==
    LET lines == SplitLines(spec)
        trans == TransOfLines(SubSeq(lines, 6, Len(lines)), <<>>)
        num_states == IntParse(lines[1])
        start == IntParse(lines[4])
        end == IntParse(lines[5])
    IN  IF Len(lines) < 5 THEN Raised("ValueError", "unpack")
        ELSE IF ~trans.ok THEN Raised("ValueError", "rule_line")
        ELSE IF ~num_states.ok \/ ~start.ok \/ ~end.ok
        THEN Raised("ValueError", "int")
        ELSE TMPostInit([num_states |-> num_states.val, trans |-> trans.items,
                         input_alphabet |-> CharSet(lines[2]),
                         tape_alphabet |-> CharSet(lines[3]),
                         start |-> start.val, end |-> end.val])

\* The first five lines of the texts: 2 states, input alphabet 0, tape
\* alphabet 01B, start state 1, halting state 2.
HeaderLines == << <<"2">>, <<"0">>, <<"0", "1", "B">>, <<"1">>, <<"2">> >>

\* Lines of the transition section: rules (two with the key (1, "0"), one
\* more with that key written "01" and with extra fields), comments, an empty
\* line, and lines that do not unpack, do not convert or break an assertion.
SectionLines ==
    {<<"1", " ", "0", " ", "2", " ", "1", " ", "R">>,
     <<"1", " ", "0", " ", "1", " ", "0", " ", "L">>,
     <<"1", " ", "B", " ", "2", " ", "B", " ", "N">>,
     <<"0", "1", " ", "0", " ", "1", " ", "1", " ", "N", " ", "x">>,
     <<"#", " ", "1", " ", "0", " ", "1", " ", "1", " ", "N">>,
     <<"/", "1", " ", "0", " ", "1", " ", "1", " ", "N">>,
     <<>>,
     <<"1", " ", "0", " ", "2">>,
     <<"1", " ", "0", " ", "1", " ", "0", " ", "X">>,
     <<"x", " ", "0", " ", "1", " ", "0", " ", "R">>,
     <<"2", " ", "0", " ", "1", " ", "0", " ", "R">>}

RECURSIVE LineSeqs(_, _)
LineSeqs(S, n) ==
    IF n = 0 THEN {<<>>}
    ELSE LET shorter == LineSeqs(S, n - 1)
         IN  shorter \cup
             {Append(q, l) : q \in {u \in shorter : Len(u) = n - 1}, l \in S}

\* "\n".join(lines), with a final "\n" when closed
RECURSIVE JoinLines(_, _)
JoinLines(lines, closed) ==
    IF lines = <<>> THEN <<>>
    ELSE IF Len(lines) = 1
    THEN Head(lines) \o (IF closed THEN <<NL>> ELSE <<>>)
    ELSE Head(lines) \o <<NL>> \o JoinLines(Tail(lines), closed)

SpecTexts ==
    {JoinLines(HeaderLines \o q, closed) :
        q \in LineSeqs(SectionLines, MaxLines), closed \in BOOLEAN}

CallFromSpec ==
    /\ call.fn = "TM.from_spec"
    /\ ret = NoReturn
    /\ ret' = FromSpec(call.args.spec)
    /\ UNCHANGED <<call, engineVars, tapeVars, secondVars>>

InitFromSpec ==
    /\ tm = Machine([a \in TapeAlphabet |-> NoRule], 3)
    /\ input = <<>>
    /\ log_configs = [r \in Runs |-> TRUE]
    /\ InitRuns
    /\ InitSecondIdle
    /\ InitTapeIdle
    /\ call \in {[fn |-> "TM.from_spec", args |-> [spec |-> t]] : t \in SpecTexts}
    /\ ret = NoReturn

NextFromSpec == CallFromSpec

SpecFromSpec == InitFromSpec /\ [][NextFromSpec]_vars

----------------------------------------------------------------------------
(* Configuration.__str__ and Configuration.parse *)

DigitChar == <<"0", "1", "2", "3", "4", "5", "6", "7", "8", "9">>

\* str(n) of an int
RECURSIVE NatStr(_)
NatStr(n) ==
    IF n < 10 THEN <<DigitChar[n + 1]>>
    ELSE NatStr(n \div 10) \o <<DigitChar[(n % 10) + 1]>>

IntStr(n) == IF n < 0 THEN <<"-">> \o NatStr(0 - n) ELSE NatStr(n)

\* lines 35-36: f"...{self.left}[{self.state}]{self.right}..."
ConfStr(c) ==
    <<".", ".", ".">> \o c.left \o <<"[">> \o IntStr(c.state) \o <<"]">>
        \o c.right \o <<".", ".", ".">>

OpenBrackets == {"[", "|", "(", "{"}
CloseBrackets == {"]", "|", ")", "}"}

UnexpectedCharacter(char) ==
    [ok |-> FALSE, raised |-> "ValueError", failed |-> "unexpected_character",
     char |-> char]

\* lines 57-66: what the loop body does with one character
ParseChar(char, alphabet, curr) ==
    IF (curr = "num" /\ IsDigit(char)) \/ char \in alphabet THEN "append"
    ELSE IF char \in {" ", "."} \/ (curr = "num" /\ char = "q") THEN "continue"
    ELSE IF char \in OpenBrackets THEN "num"
    ELSE IF char \in CloseBrackets THEN "right"
    ELSE "raise"

\* lines 54-67: the loop over data, then cls(int("".join(num)), ...);
\* bufs holds the lists left, right and num, curr names the current one
RECURSIVE ParseLoop(_, _, _, _)
ParseLoop(data, alphabet, curr, bufs) ==
    IF data = <<>>
    THEN IF IntParse(bufs.num).ok
         THEN [ok |-> TRUE,
               conf |-> Configuration(IntParse(bufs.num).val, bufs.left, bufs.right)]
         ELSE Raised("ValueError", "int")
    ELSE LET char == Head(data)
             todo == ParseChar(char, alphabet, curr)
         IN  IF todo = "append"
             THEN ParseLoop(Tail(data), alphabet, curr,
                            [bufs EXCEPT ![curr] = Append(@, char)])
             ELSE IF todo = "continue"
             THEN ParseLoop(Tail(data), alphabet, curr, bufs)
             ELSE IF todo = "raise" THEN UnexpectedCharacter(char)
             ELSE ParseLoop(Tail(data), alphabet, todo, bufs)

\* lines 52-67
ConfParse(data, alphabet) ==
    ParseLoop(data, alphabet, "left", [left |-> <<>>, right |-> <<>>, num |-> <<>>])

\* Alphabets handed to the parser: one of digits, one of letters.
ParseAlphabets == {{"0", "1", Blank}, {"a", Blank}}

ParseDigits == {<<"1">>, <<"2", "0">>}

\* Texts <left><open><digits><close><right> with left and right over the
\* alphabet, for every opening and every closing bracket.
BracketedTexts(alphabet) ==
    {l \o <<o>> \o d \o <<c>> \o r :
        l \in Strings(alphabet, MaxPartLen), r \in Strings(alphabet, MaxPartLen),
        o \in OpenBrackets, c \in CloseBrackets, d \in ParseDigits}

Tab == "\t"

\* Characters put into a text: a space, a period, a tab, the letter "q" and a
\* letter of no alphabet.
ParseInserts == {" ", ".", Tab, "q", "x"}

InsertAt(t, p, c) == SubSeq(t, 1, p) \o <<c>> \o SubSeq(t, p + 1, Len(t))

\* Texts <left><open><digits><close><right> in the four matched styles.
MatchedTexts(alphabet) ==
    {l \o <<st[1]>> \o d \o <<st[2]>> \o r :
        l \in Strings(alphabet, MaxInsertPartLen),
        r \in Strings(alphabet, MaxInsertPartLen),
        st \in {<<"[", "]">>, <<"|", "|">>, <<"(", ")">>, <<"{", "}">>},
        d \in ParseDigits}

\* A matched text with one more character at any one position.
InsertedTexts(alphabet) ==
    {InsertAt(at[1], at[2], c) :
        at \in {u \in MatchedTexts(alphabet) \X (0..(2 * MaxInsertPartLen + 4)) :
                   u[2] <= Len(u[1])},
        c \in ParseInserts}

ParseTexts(alphabets) ==
    UNION {BracketedTexts(b) \cup InsertedTexts(b) : b \in alphabets}

CallParse ==
    /\ call.fn = "Configuration.parse"
    /\ ret = NoReturn
    /\ ret' = ConfParse(call.args.data, call.args.alphabet)
    /\ UNCHANGED <<call, engineVars, tapeVars, secondVars>>

InitParse ==
    /\ tm = Machine([a \in TapeAlphabet |-> NoRule], 3)
    /\ input = <<>>
    /\ log_configs = [r \in Runs |-> TRUE]
    /\ InitRuns
    /\ InitSecondIdle
    /\ InitTapeIdle
    /\ call \in {[fn |-> "Configuration.parse", args |-> [data |-> t, alphabet |-> al]] :
                    al \in ParseAlphabets, t \in ParseTexts(ParseAlphabets)}
    /\ ret = NoReturn

NextParse == CallParse

SpecParse == InitParse /\ [][NextParse]_vars

----------------------------------------------------------------------------
(* Runs of machines the constructor returned *)

\* Table items over the symbols "0", "." and the blank, for num_states = 2.
BuiltItems ==
    {<<1, "0", 1, ".", R>>, <<1, "0", 2, "0", L>>, <<1, ".", 1, "0", R>>,
     <<1, Blank, 2, Blank, N>>, <<1, Blank, 1, "0", L>>}

BuiltArgs ==
    {[num_states |-> 2, trans |-> q, input_alphabet |-> ia, tape_alphabet |-> ta,
      start |-> 1, end |-> 2]
        : q \in {u \in ItemSeqs(BuiltItems, MaxRules) : UniqueKeys(u)},
          ia \in {{"0"}, {"."}},
          ta \in {{"0", Blank}, {"0", ".", Blank}}}

BuiltMachines == {TMPostInit(a).tm : a \in {b \in BuiltArgs : TMPostInit(b).ok}}

\* One logged call of a constructed machine on an input over its input alphabet.
InitBuilt ==
    /\ tm \in BuiltMachines
    /\ input \in Strings(tm.input_alphabet, MaxBuiltInputLen)
    /\ log_configs = [r \in Runs |-> TRUE]
    /\ InitRuns
    /\ InitSecondIdle
    /\ InitTapeIdle
    /\ InitPureIdle

SpecBuilt == InitBuilt /\ [][Next]_vars

----------------------------------------------------------------------------
(* Runs of the invert machine *)

\* The table of tms/invert.TM: state 1 walks right over the input and rewrites
\* 0 as 1 and 1 as 0; at the blank after the input state 2 walks back left;
\* at the blank before the input the machine steps right onto the leftmost
\* input cell and halts in state 3.
InvertItems ==
    <<<<1, "0", 1, "1", R>>, <<1, "1", 1, "0", R>>, <<1, Blank, 2, Blank, L>>,
      <<2, "0", 2, "0", L>>, <<2, "1", 2, "1", L>>, <<2, Blank, 3, Blank, R>>>>

\* TM.get("invert"): the machine the constructor returns for that table
InvertMachine ==
    TMPostInit([num_states |-> 3, trans |-> InvertItems,
                input_alphabet |-> {"0", "1"}, tape_alphabet |-> {"0", "1", Blank},
                start |-> 1, end |-> 3]).tm

\* Inputs over the input alphabet and a character outside the tape alphabet.
InvertInputs == Strings({"0", "1", "x"}, MaxInvertInputLen)

InitInvert ==
    /\ tm = InvertMachine
    /\ input \in InvertInputs
    /\ log_configs \in [Runs -> BOOLEAN]
    /\ log_configs[2] = TRUE
    /\ InitRuns
    /\ InitSecondIdle
    /\ InitTapeIdle
    /\ InitPureIdle

SpecInvert == InitInvert /\ [][Next]_vars

----------------------------------------------------------------------------
(* Vocabulary of the properties *)

Final == {"Halted", "UndefinedTransition", "StepBoundExceeded"}

\* The materialized cell at signed position p, for -Len(_left) <= p < Len(_right).
CellAt(t, p) == IF p < 0 THEN t._left[-p] ELSE t._right[p + 1]

\* The symbol a Configuration shows under the head; a trimmed-away cell is blank.
ConfHead(c) == IF c.right = <<>> THEN Blank ELSE Head(c.right)

\* The textbook successor of a Configuration under table entry (tar, w, d).
ConfStep(c, next) ==
    LET written == <<next[2]>> \o (IF c.right = <<>> THEN <<>> ELSE Tail(c.right))
    IN  IF next[3] = N THEN Configuration(next[1], c.left, written)
        ELSE IF next[3] = R
        THEN Configuration(next[1], Append(c.left, next[2]), Tail(written))
        ELSE IF c.left = <<>>
        THEN Configuration(next[1], <<>>, <<Blank>> \o written)
        ELSE Configuration(next[1], SubSeq(c.left, 1, Len(c.left) - 1),
                           <<c.left[Len(c.left)]>> \o written)

----------------------------------------------------------------------------
(* ram.py: the module body, parse_statement, RAM.from_program and RAM.run *)

\* A str object and a typing object, as elements of what get_args returns.
PyStr(s) == [type |-> "str", value |-> s]
PyAlias(name) == [type |-> "typing", value |-> name]

\* line 22: ArithmeticCommand is an alias object; its Literal members are
\* behind its __value__
ArithmeticCommand == PyAlias("ArithmeticCommand")

\* line 23 and get_args(Command.__value__): the value is the union of
\* Literal["LOAD", "STORE"] and the alias ArithmeticCommand, and get_args of a
\* union gives its two members, not the strings inside them
GetArgsCommand == <<PyAlias("Literal['LOAD', 'STORE']"), ArithmeticCommand>>

\* p + c for a str p: a str when c is a str, TypeError when it is not
PyConcat(p, c) ==
    IF c.type = "str" THEN [ok |-> TRUE, value |-> p \o c.value]
    ELSE [ok |-> FALSE, raised |-> "TypeError"]

\* line 43, evaluated in the class body when the module is imported
AllCommands ==
    LET sums == {PyConcat(p, GetArgsCommand[i]) :
                    p \in {"", "C", "IND"}, i \in DOMAIN GetArgsCommand}
    IN  IF \E s \in sums : ~s.ok THEN [ok |-> FALSE, raised |-> "TypeError"]
        ELSE [ok |-> TRUE, value |-> {s.value : s \in sums}]

\* line 56: the strings command is compared with
CommandNames ==
    {GetArgsCommand[i].value :
        i \in {j \in DOMAIN GetArgsCommand : GetArgsCommand[j].type = "str"}}

\* lines 11-19, for the conditions written in ASCII
CONDITION_ALIASES ==
    ("==" :> "=") @@ ("=" :> "=") @@ ("<" :> "<") @@ ("<=" :> "<=")
    @@ (">" :> ">") @@ (">=" :> ">=")

\* lines 31-34
AccessConstant == 0
AccessRegister == 1
AccessIndirect == 2

\* str.split() for a line whose only whitespace is " ": the non-empty fields
RamSplit(line) ==
    LET parts == SplitOn(line, " ")
    IN  SelectSeq(parts, LAMBDA f : f # <<>>)

\* s.startswith(prefix)
StartsWith(s, prefix) ==
    Len(s) >= Len(prefix) /\ SubSeq(s, 1, Len(prefix)) = prefix

\* A failure raised while a statement is parsed.
RamRaised(kind) == [ok |-> FALSE, raised |-> kind]

\* lines 45-61
RegisterStatement(command, arg) ==
    LET n      == IntParse(arg)
        prefix == IF StartsWith(command, <<"C">>) THEN 1
                  ELSE IF StartsWith(command, <<"I", "N", "D">>) THEN 3
                  ELSE 0
        access == IF prefix = 1 THEN AccessConstant
                  ELSE IF prefix = 3 THEN AccessIndirect
                  ELSE AccessRegister
        name   == Str(SubSeq(command, prefix + 1, Len(command)))
    IN  IF ~n.ok THEN RamRaised("ValueError")
        ELSE IF name \notin CommandNames THEN RamRaised("ValueError")
        ELSE IF access = AccessConstant /\ name = "STORE" THEN RamRaised("ValueError")
        ELSE [ok |-> TRUE,
              val |-> [kind |-> "RegisterStatement", access_type |-> access,
                       command |-> name, arg |-> n.val]]

GotoStatement(goto) == [kind |-> "GotoStatement", goto |-> goto]

EndStatement == [kind |-> "EndStatement"]

\* expr.strip("C() ")
RECURSIVE StripChars(_, _)
StripChars(s, chars) ==
    IF s # <<>> /\ Head(s) \in chars THEN StripChars(Tail(s), chars)
    ELSE IF s # <<>> /\ s[Len(s)] \in chars
    THEN StripChars(SubSeq(s, 1, Len(s) - 1), chars)
    ELSE s

\* lines 84-85, for a non-empty field
parse_expr(expr) ==
    LET n == IF expr[1] = "C" THEN IntParse(StripChars(expr, {"C", "(", ")", " "}))
             ELSE IntParse(expr)
    IN  IF ~n.ok THEN RamRaised("ValueError")
        ELSE [ok |-> TRUE, val |-> [ref |-> expr[1] = "C", n |-> n.val]]

IfStatement(lhs, condition, rhs, goto) ==
    [kind |-> "IfStatement", lhs |-> lhs, condition |-> condition, rhs |-> rhs,
     goto |-> goto]

\* What parse_statement returns: None, or the pair (line_num, statement).
RamNone == [ok |-> TRUE, some |-> FALSE]
RamSome(line_num, statement) ==
    [ok |-> TRUE, some |-> TRUE, line_num |-> line_num, statement |-> statement]

\* lines 106-113: the arguments are evaluated left to right
ParseIf(line_num, rest) ==
    LET lhs  == parse_expr(rest[1])
        cmp  == Str(rest[2])
        rhs  == parse_expr(rest[3])
        goto == IntParse(rest[5])
    IN  IF Len(rest) < 5 THEN RamRaised("ValueError")
        ELSE IF ~lhs.ok THEN lhs
        ELSE IF cmp \notin DOMAIN CONDITION_ALIASES THEN RamRaised("KeyError")
        ELSE IF ~rhs.ok THEN rhs
        ELSE IF ~goto.ok THEN RamRaised("ValueError")
        ELSE RamSome(line_num,
                     IfStatement(lhs.val, CONDITION_ALIASES[cmp], rhs.val, goto.val))

\* lines 101-117: the match on command
MatchCommand(line_num, command, rest) ==
    IF Str(command) \in AllCommands.value
    THEN IF rest = <<>> THEN RamRaised("IndexError")
         ELSE LET st == RegisterStatement(command, rest[1])
              IN  IF st.ok THEN RamSome(line_num, st.val) ELSE st
    ELSE IF Str(command) = "GOTO"
    THEN IF rest = <<>> THEN RamRaised("IndexError")
         ELSE LET goto == IntParse(rest[1])
              IN  IF goto.ok THEN RamSome(line_num, GotoStatement(goto.val))
                  ELSE RamRaised("ValueError")
    ELSE IF Str(command) = "IF" THEN ParseIf(line_num, rest)
    ELSE IF Str(command) = "END" THEN RamSome(line_num, EndStatement)
    ELSE RamNone

\* lines 93-99: a decimal label gives the line number; a first field that is
\* no label is the command
ParseLabel(fields, label, line_num) ==
    IF label # <<>> /\ \A i \in DOMAIN label : IsDigit(label[i])
    THEN MatchCommand(DigitsVal(label), fields[2], SubSeq(fields, 3, Len(fields)))
    ELSE MatchCommand(line_num, label, Tail(fields))

\* lines 89-94: fewer than two fields do not unpack; a final ":" of the
\* first field is dropped
ParseFields(fields, line_num) ==
    IF Len(fields) < 2 THEN RamNone
    ELSE ParseLabel(fields,
                    IF fields[1][Len(fields[1])] = ":"
                    THEN SubSeq(fields[1], 1, Len(fields[1]) - 1)
                    ELSE fields[1],
                    line_num)

\* lines 88-117
parse_statement(line, line_num) == ParseFields(RamSplit(line), line_num)

\* code[key] = value in a dict kept as the sequence of its items: a key
\* already present keeps its place and takes the new value
RamDictSet(items, key, value) ==
    IF \E i \in DOMAIN items : items[i][1] = key
    THEN [i \in DOMAIN items |-> IF items[i][1] = key THEN <<key, value>> ELSE items[i]]
    ELSE Append(items, <<key, value>>)

\* lines 158-160: the dict comprehension over enumerate(program.splitlines());
\* i counts from 0 and res is what parse_statement returned for the first line
RECURSIVE CodeOfLines(_, _, _)
AddParsed(lines, i, items, res) ==
    IF ~res.ok THEN res
    ELSE CodeOfLines(Tail(lines), i + 1,
                     IF res.some
                     THEN RamDictSet(items, res.line_num,
                                     [statement |-> res.statement, line |-> Head(lines)])
                     ELSE items)

CodeOfLines(lines, i, items) ==
    IF lines = <<>> THEN [ok |-> TRUE, items |-> items]
    ELSE AddParsed(lines, i, items, parse_statement(Head(lines), i))

\* lines 161-167
RECURSIVE DefnErrors(_)
DefnErrors(items) ==
    IF items = <<>> THEN <<>>
    ELSE LET statement == Head(items)[2].statement
             line      == Head(items)[2].line
         IN  (IF statement.kind = "IfStatement"
              THEN (IF statement.lhs.ref THEN << <<"IfLhsNotC0", line>> >> ELSE <<>>)
                   \o (IF ~statement.rhs.ref THEN << <<"IfRhsNotConst", line>> >>
                       ELSE <<>>)
              ELSE <<>>)
             \o DefnErrors(Tail(items))

RECURSIVE MaxOf(_)
MaxOf(S) ==
    LET x == CHOOSE y \in S : TRUE
    IN  IF S = {x} THEN x ELSE Max(x, MaxOf(S \ {x}))

\* line 168: code.setdefault(0, (GotoStatement(1), ""))
SetDefaultZero(items) ==
    IF \E i \in DOMAIN items : items[i][1] = 0 THEN items
    ELSE Append(items, <<0, [statement |-> GotoStatement(1), line |-> <<>>]>>)

\* line 169: code.get(i, (EndStatement(), ""))[0] for i in range(max(code))
CodeTuple(items) ==
    LET keys == {items[i][1] : i \in DOMAIN items}
    IN  [i \in 1..MaxOf(keys) |->
            IF i - 1 \in keys
            THEN items[CHOOSE j \in DOMAIN items : items[j][1] = i - 1][2].statement
            ELSE EndStatement]

\* lines 161-170, from the dict the comprehension gave
FromParsed(parsed) ==
    IF ~parsed.ok THEN parsed
    ELSE [ok |-> TRUE,
          code |-> CodeTuple(SetDefaultZero(parsed.items)),
          errors |-> DefnErrors(parsed.items)]

\* lines 156-170
RamFromProgram(program) == FromParsed(CodeOfLines(SplitLines(program), 0, <<>>))

\* registers = defaultdict(lambda: 0): reading a key it does not hold adds the
\* key with 0
RegGet(registers, k) == IF k \in DOMAIN registers THEN registers[k] ELSE 0

RegTouch(registers, k) ==
    IF k \in DOMAIN registers THEN registers ELSE registers @@ (k :> 0)

RegSet(registers, k, v) ==
    [x \in DOMAIN registers \cup {k} |-> IF x = k THEN v ELSE registers[x]]

\* lines 132-135; the reads are made on registers, so they add keys
RECURSIVE resolve_expr(_, _, _)
resolve_expr(registers, value, num_indirection) ==
    IF num_indirection = 0 THEN [registers |-> registers, value |-> value]
    ELSE resolve_expr(RegTouch(registers, value), RegGet(registers, value),
                      num_indirection - 1)

\* lines 142-147; x // y rounds down, also for a negative y
Arithmetic(cmd, x, y) ==
    IF cmd = "ADD" THEN x + y
    ELSE IF cmd = "SUB" THEN Max(0, x - y)
    ELSE IF cmd = "MULT" THEN x * y
    ELSE IF y > 0 THEN x \div y
    ELSE IF y < 0 THEN (0 - x) \div (0 - y)
    ELSE 0

\* lines 148-154
Comparison(cond, x, y) ==
    IF cond = "<" THEN x < y
    ELSE IF cond = "<=" THEN x <= y
    ELSE IF cond = "=" THEN x = y
    ELSE IF cond = ">=" THEN x >= y
    ELSE x > y

\* self.code[program_counter]: an index from -len to len - 1 is in range, a
\* negative one counts from the end
IndexInRange(code, program_counter) ==
    -Len(code) <= program_counter /\ program_counter < Len(code)

CodeAt(code, program_counter) ==
    IF program_counter < 0 THEN code[Len(code) + program_counter + 1]
    ELSE code[program_counter + 1]

\* lines 184-193, 205-206: what a RegisterStatement does to registers.  STORE
\* is matched with the register and the indirect access only, LOAD and the
\* arithmetic commands with every access; a statement none of the cases
\* matches reaches "case _" with registers as they were
ExecRegister(registers, curr) ==
    IF curr.command = "STORE" /\ curr.access_type = AccessRegister
    THEN LET r0 == RegTouch(registers, 0)
         IN  [ok |-> TRUE, registers |-> RegSet(r0, curr.arg, r0[0])]
    ELSE IF curr.command = "STORE" /\ curr.access_type = AccessIndirect
    THEN LET r0 == RegTouch(registers, 0)
         IN  [ok |-> TRUE,
              registers |-> RegSet(RegTouch(r0, curr.arg), RegGet(r0, curr.arg), r0[0])]
    ELSE IF curr.command = "LOAD"
    THEN LET res == resolve_expr(registers, curr.arg, curr.access_type)
         IN  [ok |-> TRUE, registers |-> RegSet(res.registers, 0, res.value)]
    ELSE IF curr.command \in {"ADD", "SUB", "MULT", "DIV"}
    THEN LET r0  == RegTouch(registers, 0)
             res == resolve_expr(r0, curr.arg, curr.access_type)
         IN  [ok |-> TRUE,
              registers |-> RegSet(res.registers, 0,
                                   Arithmetic(curr.command, r0[0], res.value))]
    ELSE [ok |-> FALSE, raised |-> "ValueError", registers |-> registers]

\* lines 196-197: an operand of an IfStatement
Operand(registers, e) ==
    IF e.ref THEN [registers |-> RegTouch(registers, e.n), value |-> RegGet(registers, e.n)]
    ELSE [registers |-> registers, value |-> e.n]

\* The iteration count at which run gives up.
IterationLimit == 8

\* lines 177-206: the loop, from the state before an iteration
RECURSIVE RunLoop(_, _, _, _)
RunLoop(code, registers, program_counter, iteration) ==
    IF ~IndexInRange(code, program_counter)
    THEN [ok |-> FALSE, raised |-> "IndexError", during |-> "run",
          program_counter |-> program_counter]
    ELSE IF iteration + 1 >= IterationLimit
    THEN [ok |-> FALSE, raised |-> "TimeoutError", during |-> "run",
          program_counter |-> program_counter]
    ELSE LET curr == CodeAt(code, program_counter)
         IN  IF curr.kind = "RegisterStatement"
             THEN LET done == ExecRegister(registers, curr)
                  IN  IF done.ok
                      THEN RunLoop(code, done.registers, program_counter + 1,
                                   iteration + 1)
                      ELSE [ok |-> FALSE, raised |-> done.raised, during |-> "run",
                            program_counter |-> program_counter]
             ELSE IF curr.kind = "IfStatement"
             THEN LET first  == Operand(registers, curr.lhs)
                      second == Operand(first.registers, curr.rhs)
                  IN  RunLoop(code, second.registers,
                              IF Comparison(curr.condition, first.value, second.value)
                              THEN curr.goto ELSE program_counter + 1,
                              iteration + 1)
             ELSE IF curr.kind = "GotoStatement"
             THEN RunLoop(code, registers, curr.goto, iteration + 1)
             ELSE IF curr.kind = "EndStatement"
             THEN [ok |-> TRUE, registers |-> registers]
             ELSE [ok |-> FALSE, raised |-> "ValueError", during |-> "run",
                   program_counter |-> program_counter]

\* lines 172-175
RamRun(code) == RunLoop(code, <<>>, 0, 0)

\* A caller's "from autogradetm.ram import RAM", RAM.from_program(program) and
\* run() on the machine it returned: the class body of RegisterStatement is
\* executed by the import, before anything of the module can be called.
RamSession(program) ==
    IF ~AllCommands.ok
    THEN [ok |-> FALSE, raised |-> AllCommands.raised, during |-> "import"]
    ELSE LET built == RamFromProgram(program)
         IN  IF ~built.ok
             THEN [ok |-> FALSE, raised |-> built.raised, during |-> "from_program"]
             ELSE RamRun(built.code)

\* Lines of a program: END and GOTO with a label, with a label and a colon
\* and without a label, register statements in the three access types, an
\* IF, and lines on which parse_statement raises.
RamLines ==
    {<<"1", " ", "E", "N", "D">>,
     <<"2", ":", " ", "E", "N", "D">>,
     <<"E", "N", "D">>,
     <<"G", "O", "T", "O", " ", "0">>,
     <<"0", " ", "G", "O", "T", "O", " ", "2">>,
     <<"C", "L", "O", "A", "D", " ", "1">>,
     <<"1", " ", "S", "T", "O", "R", "E", " ", "1">>,
     <<"C", "A", "D", "D", " ", "1">>,
     <<"I", "F", " ", "C", "(", "0", ")", " ", "=", " ", "1", " ", "G", "O", "T", "O", " ", "2">>,
     <<"1", " ", "I", "N", "D", "L", "O", "A", "D", " ", "0">>,
     <<"0", " ", "C", "S", "T", "O", "R", "E", " ", "1">>,
     <<"1", " ", "G", "O", "T", "O">>}

MaxRamLines == 2

RamPrograms(n) ==
    {JoinLines(q, closed) : q \in LineSeqs(RamLines, n), closed \in BOOLEAN}

CallRam ==
    /\ call.fn = "RAM.run"
    /\ ret = NoReturn
    /\ ret' = RamSession(call.args.program)
    /\ UNCHANGED <<call, engineVars, tapeVars, secondVars>>

InitRam ==
    /\ tm = Machine([a \in TapeAlphabet |-> NoRule], 3)
    /\ input = <<>>
    /\ log_configs = [r \in Runs |-> TRUE]
    /\ InitRuns
    /\ InitSecondIdle
    /\ InitTapeIdle
    /\ call \in {[fn |-> "RAM.run", args |-> [program |-> p]] :
                    p \in RamPrograms(MaxRamLines)}
    /\ ret = NoReturn

NextRam == CallRam

SpecRam == InitRam /\ [][NextRam]_vars

----------------------------------------------------------------------------
(* C1 *)

\* C1: when a call has halted, its output is the longest run of input-alphabet
\* symbols of the materialized tape that starts at the cell under the halted
\* head and goes rightward; it ends at the first symbol outside the input
\* alphabet or at the right edge of storage, for negative, zero and positive
\* head positions alike.
C1_OutputIsLongestInputRun ==
    \A r \in Runs :
        outcome[r].kind = "Halted" =>
            LET t == tape[r]
                res == outcome[r].res
                n == Len(res)
                edge == Len(t._right)
            IN  /\ t._pos + n <= edge
                /\ \A i \in 1..n :
                      /\ res[i] = CellAt(t, t._pos + i - 1)
                      /\ res[i] \in tm.input_alphabet
                /\ t._pos + n < edge => CellAt(t, t._pos + n) \notin tm.input_alphabet

\* A call halted with the head left of position 0 and an output that runs from
\* the negative side into the non-negative side.
C1_Witness ==
    /\ outcome[1].kind = "Halted"
    /\ tape[1]._pos < 0
    /\ Len(outcome[1].res) >= 2

----------------------------------------------------------------------------
(* C2 *)

\* Whenever the step counter of a call changes, the call was in a non-halting
\* state s reading a, the table holds (s, a) -> (s', w, d), w is now in the
\* cell that was under the head, the head moved by d, the state is s' and the
\* counter grew by one.
C2_StepRelation ==
    \A r \in Runs :
        step[r]' # step[r] =>
            LET key == <<state[r], TapeRead(tape[r])>>
            IN  /\ state[r] # tm.end
                /\ key \in DOMAIN tm.trans
                /\ CellAt(tape[r]', tape[r]._pos) = tm.trans[key][2]
                /\ tape[r]'._pos = tape[r]._pos + tm.trans[key][3]
                /\ tm.trans[key][3] \in Direction
                /\ state[r]' = tm.trans[key][1]
                /\ step[r]' = step[r] + 1

\* Consecutive entries of a recorded trace are related by the table entry for
\* the state and head symbol of the earlier entry.
C2_TraceRelation ==
    \A r \in Runs :
        (log_configs[r] /\ outcome[r].kind # "NotStarted") =>
            \A i \in 1..(Len(configs[r]) - 1) :
                LET c == configs[r][i]
                    key == <<c.state, ConfHead(c)>>
                IN  /\ key \in DOMAIN tm.trans
                    /\ configs[r][i + 1] = ConfStep(c, tm.trans[key])

\* C2: each engine step in a non-halting state s on symbol a with table entry
\* (s, a) -> (s', w, d) writes w under the head, moves the head by d, enters
\* s' and adds one to the step counter; consecutive trace entries are related
\* by exactly this step.
C2_StepSemantics == [][C2_StepRelation]_vars /\ []C2_TraceRelation

\* A recorded call that has taken three steps and whose head is left of 0.
C2_Witness ==
    /\ log_configs[1]
    /\ step[1] = 3
    /\ Len(configs[1]) = 4
    /\ tape[1]._pos < 0

----------------------------------------------------------------------------
(* C3 *)

\* C3: every call eventually completes as Halted, UndefinedTransition or
\* StepBoundExceeded, stays completed with that outcome, and never executes
\* more than StepBound steps.
C3_EveryRunCompletes ==
    /\ <>(outcome[1].kind \in Final)
    /\ [](outcome[1].kind \in {"NotStarted", "Running"} \cup Final)
    /\ [](step[1] <= StepBound)
    /\ [][outcome[1].kind \in Final => outcome[1]' = outcome[1]]_vars

\* A call that only the step bound stopped: it is still in a non-halting state
\* with a table entry for the symbol under its head.
C3_Witness ==
    /\ outcome[1].kind = "StepBoundExceeded"
    /\ state[1] # tm.end
    /\ <<state[1], TapeRead(tape[1])>> \in DOMAIN tm.trans

----------------------------------------------------------------------------
(* C4 *)

\* C4: a call fails with StepBoundExceeded only while its current state is not
\* the halting state; a machine whose StepBound-th step enters the halting
\* state ends Halted.
C4_TimeoutOnlyWithoutHalting ==
    \A r \in Runs : outcome[r].kind = "StepBoundExceeded" => state[r] # tm.end

----------------------------------------------------------------------------
(* C5 *)

\* C5: the trace carried by a StepBoundExceeded failure of a recorded call has
\* StepBound + 1 entries, the initial configuration and one per executed step.
C5_TimeoutTraceLength ==
    \A r \in Runs :
        (outcome[r].kind = "StepBoundExceeded" /\ log_configs[r]) =>
            Len(outcome[r].configs) = StepBound + 1

----------------------------------------------------------------------------
(* C6 *)

\* C6: a call that never reaches the halting state and always finds a table
\* entry fails with StepBoundExceeded, and a call fails so after exactly
\* StepBound executed steps: it is still running below the bound and has
\* counted StepBound steps when it fails.
C6_ExactlyStepBoundSteps ==
    /\ <>(\/ outcome[1].kind \in {"StepBoundExceeded", "UndefinedTransition"}
          \/ (outcome[1].kind # "NotStarted" /\ state[1] = tm.end))
    /\ [](outcome[1].kind = "Running" => step[1] < StepBound)
    /\ [](outcome[1].kind = "StepBoundExceeded" => step[1] = StepBound)
    /\ [][outcome[1]'.kind = "StepBoundExceeded" /\ outcome[1].kind = "Running"
            => step[1] = StepBound - 1 /\ step[1]' = StepBound
               /\ tape[1]' = TapeMove(TapeWrite(tape[1],
                                tm.trans[<<state[1], TapeRead(tape[1])>>][2]),
                                tm.trans[<<state[1], TapeRead(tape[1])>>][3])]_vars

\* A looping call stopped by the bound with its head StepBound cells left of
\* the input: each of the StepBound steps moved the head.
C6_Witness ==
    /\ outcome[1].kind = "StepBoundExceeded"
    /\ state[1] # tm.end
    /\ step[1] = StepBound
    /\ tape[1]._pos = -StepBound

----------------------------------------------------------------------------
(* C7 *)

\* The Configuration of tape t in state st, cell by cell: the materialized
\* cells strictly left of the head and those from the head rightward.
ViewOf(t, st) ==
    Configuration(st,
        [i \in 1..(t._pos + Len(t._left)) |-> CellAt(t, i - 1 - Len(t._left))],
        [i \in 1..(Len(t._right) - t._pos) |-> CellAt(t, t._pos + i - 1)])

\* While a recorded call runs, and when it has halted, its trace has one entry
\* more than steps were taken, starts with the Configuration of the start
\* state, an empty left and the input as right, and ends with the
\* Configuration of the current tape and state.
C7_TraceShape ==
    \A r \in Runs :
        (log_configs[r] /\ outcome[r].kind \in {"Running", "Halted"}) =>
            /\ Len(configs[r]) = step[r] + 1
            /\ configs[r][1] = Configuration(tm.start, <<>>, input)
            /\ configs[r][step[r] + 1] = ViewOf(tape[r], state[r])
            /\ outcome[r].kind = "Halted" => outcome[r].configs = configs[r]

\* Entries of the trace are never changed or removed once recorded.
C7_TraceGrows ==
    \A r \in Runs :
        outcome[r].kind # "NotStarted" =>
            /\ Len(configs[r]') >= Len(configs[r])
            /\ SubSeq(configs[r]', 1, Len(configs[r])) = configs[r]

\* C7: a recorded call that halts after n steps (n >= 0) returns a trace of
\* n + 1 entries; entry 0 is the initial Configuration (start state, empty
\* left, the input as right; a Configuration holds its right side with
\* trailing blanks trimmed) and entry i is the Configuration of tape and state
\* after the i-th step.
C7_HaltedTrace == []C7_TraceShape /\ [][C7_TraceGrows]_vars

\* A recorded call that halted after three steps, and returned four entries.
C7_Witness ==
    /\ log_configs[1]
    /\ outcome[1].kind = "Halted"
    /\ step[1] = 3
    /\ Len(outcome[1].configs) = 4

----------------------------------------------------------------------------
(* C8 *)

\* A failed lookup carries the pair (current state, symbol under the head),
\* which has no table entry; a recorded call also carries its trace, whose
\* last entry shows the offending state and the offending symbol at its head.
C8_FailureCarriesPair ==
    \A r \in Runs :
        outcome[r].kind = "UndefinedTransition" =>
            /\ outcome[r].key = <<state[r], TapeRead(tape[r])>>
            /\ outcome[r].key \notin DOMAIN tm.trans
            /\ log_configs[r] =>
                  /\ outcome[r].configs = configs[r]
                  /\ Len(configs[r]) = step[r] + 1
                  /\ configs[r][Len(configs[r])].state = outcome[r].key[1]
                  /\ ConfHead(configs[r][Len(configs[r])]) = outcome[r].key[2]
            /\ ~log_configs[r] => outcome[r].configs = NoTrace

\* A running call whose pair has no table entry fails with
\* UndefinedTransition in its next step, and that step leaves the tape, the
\* head, the state, the step counter and the trace as they were.
C8_FailureWritesNothing ==
    \A r \in Runs :
        /\ ( /\ outcome[r].kind = "Running"
             /\ state[r] # tm.end
             /\ <<state[r], TapeRead(tape[r])>> \notin DOMAIN tm.trans
             /\ outcome[r]' # outcome[r] )
           => outcome[r]'.kind = "UndefinedTransition"
        /\ (outcome[r]'.kind = "UndefinedTransition" /\ outcome[r].kind = "Running")
           => /\ tape[r]' = tape[r]
              /\ state[r]' = state[r]
              /\ step[r]' = step[r]
              /\ configs[r]' = configs[r]

\* C8: a pair (current state, symbol under the head) without table entry stops
\* the call with UndefinedTransition carrying exactly that pair, nothing
\* written or moved in that step; a recorded call also carries the trace so
\* far, whose last entry is the configuration in which the lookup failed.
C8_UndefinedTransition == []C8_FailureCarriesPair /\ [][C8_FailureWritesNothing]_vars

\* A recorded call that failed on a blank cell after at least two steps, the
\* blank being trimmed from the last trace entry.
C8_Witness ==
    /\ log_configs[1]
    /\ outcome[1].kind = "UndefinedTransition"
    /\ step[1] >= 2
    /\ outcome[1].key[2] = Blank
    /\ outcome[1].configs[Len(outcome[1].configs)].right = <<>>

----------------------------------------------------------------------------
(* C9 *)

\* The longest prefix of s whose characters all lie in S.
C9_Prefix(S, s) ==
    LET good == {k \in 0..Len(s) : \A i \in 1..k : s[i] \in S}
    IN  SubSeq(s, 1, CHOOSE k \in good : \A j \in good : j <= k)

\* The outcome a machine definition m and an input string determine, computed
\* on Configurations with the textbook successor and no Tape: c is the
\* configuration after n steps, trace the configurations so far, log whether
\* the caller asked for the trace.
RECURSIVE C9_Continue(_, _, _, _, _)
C9_Continue(m, c, n, trace, log) ==
    LET key  == <<c.state, ConfHead(c)>>
        kept == IF log THEN trace ELSE NoTrace
    IN  IF c.state = m.end
        THEN [kind |-> "Halted", res |-> C9_Prefix(m.input_alphabet, c.right),
              key |-> NoKey, configs |-> kept]
        ELSE IF key \notin DOMAIN m.trans
        THEN [kind |-> "UndefinedTransition", res |-> <<>>, key |-> key,
              configs |-> kept]
        ELSE IF n + 1 >= StepBound
        THEN [kind |-> "StepBoundExceeded", res |-> <<>>, key |-> NoKey,
              configs |-> kept]
        ELSE LET c1 == ConfStep(c, m.trans[key])
             IN  C9_Continue(m, c1, n + 1, Append(trace, c1), log)

C9_Determined(m, inp, log) ==
    LET c0 == Configuration(m.start, <<>>, inp)
    IN  C9_Continue(m, c0, 0, <<c0>>, log)

\* Two calls that are under way or over agree after the same number of steps,
\* and agree on how they ended.
C9_RunsAgree ==
    (outcome[1].kind # "NotStarted" /\ outcome[2].kind # "NotStarted") =>
        /\ step[1] = step[2] =>
              /\ tape[1] = tape[2]
              /\ state[1] = state[2]
              /\ log_configs[1] = log_configs[2] => configs[1] = configs[2]
        /\ (outcome[1].kind \in Final /\ outcome[2].kind \in Final) =>
              /\ outcome[1].kind = outcome[2].kind
              /\ outcome[1].res = outcome[2].res
              /\ outcome[1].key = outcome[2].key
              /\ log_configs[1] = log_configs[2] => outcome[1] = outcome[2]

\* C9: the engine is deterministic.  Two calls of the same machine on the same
\* input, interleaved in any way, show the same tape, state and trace after
\* the same number of steps and end with the same outcome: the same output,
\* the same trace, the same failure kind and the same payload.  That outcome
\* is the one value the machine definition and the input string determine,
\* whichever way the steps of the two calls were scheduled.
C9_Deterministic ==
    /\ C9_RunsAgree
    /\ \A r \in Runs :
          outcome[r].kind \in Final =>
              outcome[r] = C9_Determined(tm, input, log_configs[r])

\* Both recorded calls halted after at least two steps with a non-empty output
\* and returned the same trace.
C9_Witness ==
    /\ log_configs[1] /\ log_configs[2]
    /\ outcome[1].kind = "Halted" /\ outcome[2].kind = "Halted"
    /\ step[1] >= 2
    /\ outcome[1].res # <<>>
    /\ outcome[2].configs = outcome[1].configs

----------------------------------------------------------------------------
(* C10 *)

\* C10: after construction from any input string and after any sequence of
\* read, write and move, the head lies inside materialized storage:
\* -len(_left) <= _pos < len(_right).
C10_HeadInsideStorage ==
    /\ -Len(tp._left) <= tp._pos
    /\ tp._pos < Len(tp._right)

\* A tape built from the empty string whose head is on the leftmost of two
\* cells grown on the left.
C10_Witness ==
    /\ input = <<>>
    /\ tp._pos = -2
    /\ Len(tp._left) = 2
    /\ ops = MaxOps

----------------------------------------------------------------------------
(* C11 *)

\* C11: during a call on any caller-supplied input string, every symbol that
\* Tape.read returns (the cell under the head whenever the loop body runs) is
\* a member of the machine's tape alphabet.
C11_ReadInTapeAlphabet ==
    \A r \in Runs :
        (outcome[r].kind = "Running" /\ state[r] # tm.end) =>
            TapeRead(tape[r]) \in tm.tape_alphabet

\* C11 as amended: during a call on an input string whose characters all
\* belong to the tape alphabet, every symbol that Tape.read returns is a
\* member of the tape alphabet.
C11_ReadInTapeAlphabetOnLegalInput ==
    (\A i \in 1..Len(input) : input[i] \in tm.tape_alphabet) =>
        C11_ReadInTapeAlphabet

\* A call on an input over the tape alphabet about to read a cell that was
\* grown on the left, after two steps.
C11_Witness ==
    /\ input # <<>>
    /\ \A i \in 1..Len(input) : input[i] \in tm.tape_alphabet
    /\ outcome[1].kind = "Running"
    /\ state[1] # tm.end
    /\ step[1] >= 2
    /\ tape[1]._pos < 0

----------------------------------------------------------------------------
(* C12 *)

\* What one Tape operation may do to storage: the head moves by at most one
\* cell; if the new head position is outside the old extent, exactly one blank
\* cell is appended on the side entered, the other side is untouched and the
\* head reads blank; otherwise neither backing sequence grows, and a step
\* that moves the head leaves both as they were.
C12_GrowthRule ==
    LET p == tp'._pos
    IN  /\ p - tp._pos \in Direction
        /\ IF p < -Len(tp._left)
           THEN /\ tp'._left = Append(tp._left, Blank)
                /\ tp'._right = tp._right
                /\ TapeRead(tp') = Blank
           ELSE IF p >= Len(tp._right)
           THEN /\ tp'._right = Append(tp._right, Blank)
                /\ tp'._left = tp._left
                /\ TapeRead(tp') = Blank
           ELSE /\ Len(tp'._left) = Len(tp._left)
                /\ Len(tp'._right) = Len(tp._right)
                /\ p # tp._pos => (tp'._left = tp._left /\ tp'._right = tp._right)

\* C12: Tape.move appends exactly one blank cell on the side it enters if and
\* only if the new head position lies outside the materialized extent, and
\* otherwise leaves both backing sequences unchanged (a Neutral move never
\* grows storage); the first read of a never-touched cell returns blank.
C12_MoveGrowsByOneBlank == [][C12_GrowthRule]_vars

\* A tape built from "00" whose head went two cells right onto a cell grown
\* at the right end, which was then read.
C12_Witness ==
    /\ input = <<"0", "0">>
    /\ tp._pos = 2
    /\ tp._right = <<"0", "0", Blank>>
    /\ ops = 3

----------------------------------------------------------------------------
(* C13 - C17: construction *)

Constructing == call.fn = "TM.__post_init__" /\ ret # NoReturn

InRange(n, a) == 1 <= n /\ n <= a.num_states

ProperSubset(A, B) == A \subseteq B /\ A # B

\* C13: construction fails whenever start_state or halting_state lies outside
\* [1, num_states], above num_states or below 1 alike.
C13_StateRangeEnforced ==
    (Constructing /\ (~InRange(call.args.start, call.args)
                      \/ ~InRange(call.args.end, call.args)))
        => ~ret.ok

\* C14: construction fails, producing no machine, when the given input
\* alphabet is not a strict subset of the given tape alphabet, or when the
\* blank symbol is not in the given tape alphabet.
C14_AlphabetsEnforced ==
    (Constructing /\ (~ProperSubset(call.args.input_alphabet, call.args.tape_alphabet)
                      \/ Blank \notin call.args.tape_alphabet))
        => ~ret.ok

\* C15: every machine definition that construction returns has the blank
\* symbol outside its input alphabet and inside its tape alphabet, and its
\* input alphabet is a proper subset of its tape alphabet.
C15_AlphabetInvariants ==
    (Constructing /\ ret.ok) =>
        /\ Blank \notin ret.tm.input_alphabet
        /\ Blank \in ret.tm.tape_alphabet
        /\ ProperSubset(ret.tm.input_alphabet, ret.tm.tape_alphabet)

\* A machine was constructed, with a table of two items, from a tape alphabet
\* that equalled the input alphabet and lacked the blank symbol.
C15_Witness ==
    /\ Constructing
    /\ ret.ok
    /\ call.args.tape_alphabet = call.args.input_alphabet
    /\ Len(call.args.trans) = 2

\* The tape alphabet transitions are checked against: the given one with the
\* input alphabet and the blank symbol added.
C16_TapeAlphabet(a) == a.tape_alphabet \cup a.input_alphabet \cup {Blank}

C16_BadItem(a, it) ==
    \/ it[1] = a.end
    \/ ~InRange(it[1], a)
    \/ it[2] \notin C16_TapeAlphabet(a)
    \/ ~InRange(it[3], a)
    \/ it[4] \notin C16_TapeAlphabet(a)

\* C16: construction fails if any transition has a source state equal to the
\* halting state or outside [1, num_states], a source symbol not in the tape
\* alphabet, a target state outside [1, num_states] or a write symbol not in
\* the tape alphabet; so in a constructed machine all transition states lie in
\* [1, num_states] and no transition leaves the halting state.
C16_TransitionsEnforced ==
    Constructing =>
        /\ (\E i \in DOMAIN call.args.trans :
                C16_BadItem(call.args, call.args.trans[i])) => ~ret.ok
        /\ ret.ok =>
              \A k \in DOMAIN ret.tm.trans :
                  /\ k[1] # ret.tm.end
                  /\ InRange(k[1], ret.tm)
                  /\ InRange(ret.tm.trans[k][1], ret.tm)

\* The assertions of the constructor that the arguments violate.
C17_Violated(a) ==
    ({x \in {"start"} : a.start > a.num_states}
     \cup {x \in {"end"} : a.end > a.num_states}
     \cup {x \in {"blank_in_input"} : Blank \in a.input_alphabet}
     \cup {ItemFailure(a, C16_TapeAlphabet(a), a.trans[i]) : i \in DOMAIN a.trans})
    \ {"none"}

\* C17: validation is exhaustive: a failed construction surfaces every
\* violated invariant, not only the first one checked.
C17_AllViolationsSurfaced ==
    (Constructing /\ ~ret.ok) =>
        \A v \in C17_Violated(call.args) : v \in {ret.failed}

----------------------------------------------------------------------------
(* C18: the transition table of TM.from_spec *)

\* Lines 6..N of the text of the call.
C18_Section == LET lines == SplitLines(call.args.spec)
               IN  SubSeq(lines, 6, Len(lines))

\* The rule lines: neither empty nor starting with "#" or "/".
C18_RuleLines ==
    {i \in DOMAIN C18_Section :
        C18_Section[i] # <<>> /\ C18_Section[i][1] \notin {"#", "/"}}

C18_Fields(i) == SplitOn(C18_Section[i], " ")

C18_Key(i) == <<IntParse(C18_Fields(i)[1]).val, Str(C18_Fields(i)[2])>>

C18_Value(i) ==
    <<IntParse(C18_Fields(i)[3]).val, Str(C18_Fields(i)[4]),
      DirectionParse(C18_Fields(i)[5]).val>>

\* C18: the table from_spec builds has exactly the keys of the rule lines of
\* lines 6..N (empty lines and lines starting with "#" or "/" add none), and
\* holds for each key the value that the first five space-separated fields of
\* the last rule line with that key give.
C18_TableIsLastRulePerKey ==
    (call.fn = "TM.from_spec" /\ ret # NoReturn /\ ret.ok) =>
        /\ DOMAIN ret.tm.trans = {C18_Key(i) : i \in C18_RuleLines}
        /\ \A k \in DOMAIN ret.tm.trans :
              LET last_line == CHOOSE i \in C18_RuleLines :
                                  /\ C18_Key(i) = k
                                  /\ \A j \in C18_RuleLines :
                                        C18_Key(j) = k => j <= i
              IN  ret.tm.trans[k] = C18_Value(last_line)

\* A machine was built from a section of three lines: a rule, a comment, and
\* a rule with extra fields and the same key as the first but another value.
C18_Witness ==
    /\ call.fn = "TM.from_spec"
    /\ ret # NoReturn
    /\ ret.ok
    /\ Len(C18_Section) = 3
    /\ C18_RuleLines = {1, 3}
    /\ C18_Section[2] # <<>>
    /\ C18_Key(1) = C18_Key(3)
    /\ C18_Value(1) # C18_Value(3)
    /\ Len(C18_Fields(3)) > 5

----------------------------------------------------------------------------
(* C20: the four delimiter styles of Configuration.parse *)

C20_Styles == {<<"[", "]">>, <<"|", "|">>, <<"(", ")">>, <<"{", "}">>}

\* C20: for each of the four delimiter styles, |digits| included, a text
\* <left><open><digits><close><right> whose left and right are over the
\* supplied alphabet parses to the Configuration of that state, left and right.
C20_FourStylesParse ==
    (call.fn = "Configuration.parse" /\ ret # NoReturn) =>
        \A style \in C20_Styles, d \in ParseDigits :
            \A l, r \in Strings(call.args.alphabet, MaxPartLen) :
                call.args.data = l \o <<style[1]>> \o d \o <<style[2]>> \o r
                    => /\ ret.ok
                       /\ ret.conf = Configuration(DigitsVal(d), l, r)

----------------------------------------------------------------------------
(* C19: Configuration round trip *)

\* C19: every Configuration in the trace of a run of a constructed machine is
\* what Configuration.parse returns for its str() and the tape alphabet.
C19_RoundTrip ==
    \A r \in Runs : \A i \in DOMAIN configs[r] :
        ConfParse(ConfStr(configs[r][i]), tm.tape_alphabet)
            = [ok |-> TRUE, conf |-> configs[r][i]]

----------------------------------------------------------------------------
(* C21, C22: characters Configuration.parse rejects and ignores *)

Parsed == call.fn = "Configuration.parse" /\ ret # NoReturn

\* The buffer that is active after the first n characters of data: an opening
\* bracket makes it the state digits, a closing bracket makes it the right
\* side, and "|" closes when the state digits are active and opens otherwise.
RECURSIVE C21_Region(_, _)
C21_Region(data, n) ==
    IF n = 0 THEN "left"
    ELSE LET before == C21_Region(data, n - 1)
             char == data[n]
         IN  IF before = "num" /\ char \in CloseBrackets THEN "right"
             ELSE IF char \in OpenBrackets THEN "num"
             ELSE IF char \in CloseBrackets THEN "right"
             ELSE before

C21_Whitespace == {" ", Tab}

\* The character at position i is none of the characters the parser is to take.
C21_Offending(data, alphabet, i) ==
    /\ data[i] \notin alphabet
    /\ ~(IsDigit(data[i]) /\ C21_Region(data, i - 1) = "num")
    /\ data[i] \notin C21_Whitespace \cup {"."}
    /\ data[i] \notin OpenBrackets \cup CloseBrackets

\* C21: a text holding a character that is not in the alphabet, not a digit
\* inside a bracketed region, not whitespace or a period and not a bracket is
\* rejected: no Configuration is returned and the failure names such a
\* character of the text.
C21_OffendingCharacterRejected ==
    (Parsed /\ \E i \in DOMAIN call.args.data :
                   C21_Offending(call.args.data, call.args.alphabet, i))
        => /\ ~ret.ok
           /\ ret.failed = "unexpected_character"
           /\ \E i \in DOMAIN call.args.data :
                 /\ C21_Offending(call.args.data, call.args.alphabet, i)
                 /\ ret.char = call.args.data[i]

RemoveAt(t, i) == SubSeq(t, 1, i - 1) \o SubSeq(t, i + 1, Len(t))

\* The characters to be ignored that the alphabet of the call does not hold.
C22_Ignorable == (C21_Whitespace \cup {"."}) \ call.args.alphabet

\* C22: putting a whitespace character or a period that is not in the alphabet
\* into the text at any position, or taking one out, does not change what
\* Configuration.parse returns or raises.
C22_WhitespaceAndPeriodsIgnored ==
    Parsed =>
        /\ \A p \in 0..Len(call.args.data) : \A c \in C22_Ignorable :
              ConfParse(InsertAt(call.args.data, p, c), call.args.alphabet) = ret
        /\ \A i \in DOMAIN call.args.data :
              call.args.data[i] \in C22_Ignorable =>
                  ConfParse(RemoveAt(call.args.data, i), call.args.alphabet) = ret

----------------------------------------------------------------------------
(* C23: independent runs *)

\* What a call of machine m yields when nothing else runs: the loop of
\* TM.__call__ from tape t, state st, step count n and trace cfs to its end.
RECURSIVE C23_Loop(_, _, _, _, _, _)
C23_Loop(m, t, st, n, cfs, log) ==
    IF st = m.end THEN Returned(Output(m, t), log, cfs)
    ELSE LET key == <<st, TapeRead(t)>>
         IN  IF key \notin DOMAIN m.trans THEN RaisedKeyError(key, log, cfs)
             ELSE LET next == m.trans[key]
                      t1 == TapeMove(TapeWrite(t, next[2]), next[3])
                  IN  IF StepLimitReached(n + 1) THEN RaisedTimeoutError(log, cfs)
                      ELSE C23_Loop(m, t1, next[1], n + 1,
                                    IF log THEN Append(cfs, TapeConfiguration(t1, next[1]))
                                    ELSE cfs,
                                    log)

C23_Alone(m, inp, log) ==
    C23_Loop(m, TapeInit(inp), m.start, 0,
             <<TapeConfiguration(TapeInit(inp), m.start)>>, log)

\* Every call that ended, ended as it does alone.
C23_SameAsAlone ==
    /\ outcome[1].kind \in Final =>
          outcome[1] = C23_Alone(tm, input, log_configs[1])
    /\ outcome[2].kind \in Final =>
          outcome[2] = C23_Alone(tm2, input2, log_configs[2])

\* A step of either call writes neither a machine definition nor an input nor
\* the tape, state, step counter, trace or outcome of the other call.
C23_OwnState ==
    /\ tm' = tm /\ tm2' = tm2 /\ input' = input /\ input2' = input2
    /\ \A r \in Runs :
          <<tape[r], state[r], step[r], configs[r], outcome[r]>>'
              # <<tape[r], state[r], step[r], configs[r], outcome[r]>>
          => \A o \in Runs \ {r} :
                <<tape[o], state[o], step[o], configs[o], outcome[o]>>'
                    = <<tape[o], state[o], step[o], configs[o], outcome[o]>>

\* C23: two calls, on the same or on different machine definitions,
\* interleaved step by step, each end with the output, trace or failure they
\* end with when run alone; no step writes a machine definition or state of
\* the other call.
C23_RunsIndependent == []C23_SameAsAlone /\ [][C23_OwnState]_vars

\* A call halted after two steps or more while a call on another machine
\* definition and another input was under way, two steps or more made.
C23_Witness ==
    /\ tm # tm2
    /\ input # input2
    /\ outcome[1].kind = "Halted"
    /\ step[1] >= 2
    /\ outcome[2].kind = "Running"
    /\ step[2] >= 2

----------------------------------------------------------------------------
(* C24: the invert machine *)

\* C24: the call of the invert machine on "0101" returns "1010" and the call
\* on "111" returns "000".
C24_InvertExamples ==
    /\ (input = <<"0", "1", "0", "1">> /\ outcome[1].kind \in Final) =>
          /\ outcome[1].kind = "Halted"
          /\ outcome[1].res = <<"1", "0", "1", "0">>
    /\ (input = <<"1", "1", "1">> /\ outcome[1].kind \in Final) =>
          /\ outcome[1].kind = "Halted"
          /\ outcome[1].res = <<"0", "0", "0">>

\* The call on "0101" returned after its ten steps, the head on the leftmost
\* input cell.
C24_Witness ==
    /\ input = <<"0", "1", "0", "1">>
    /\ outcome[1].kind = "Halted"
    /\ step[1] = 10
    /\ tape[1]._pos = 0

----------------------------------------------------------------------------
(* C25: Tape.configuration *)

\* The materialized cells at the signed positions from..to, left to right.
C25_Cells(t, from, to) == [i \in 1..(to - from + 1) |-> CellAt(t, from + i - 1)]

\* C25: on every tape the operations reach, whatever the sign of the head
\* position, the untrimmed left side is the materialized cells strictly left
\* of the head in left-to-right order and the untrimmed right side is the
\* cell under the head followed by the materialized cells right of it, so
\* the two sides joined are the whole materialized tape in order, each cell
\* once.
C25_SplitAtHead ==
    LET low == -Len(tp._left)
        high == Len(tp._right) - 1
    IN  /\ TapeSplit(tp).left_of_head = C25_Cells(tp, low, tp._pos - 1)
        /\ TapeSplit(tp).right_of_head = C25_Cells(tp, tp._pos, high)
        /\ TapeSplit(tp).left_of_head \o TapeSplit(tp).right_of_head
              = C25_Cells(tp, low, high)
        /\ Len(TapeSplit(tp).left_of_head) + Len(TapeSplit(tp).right_of_head)
              = Len(tp._left) + Len(tp._right)

\* The head is on the second of two cells left of the input, the first of
\* which was written with a symbol other than the blank.
C25_Witness ==
    /\ tp._pos = -2
    /\ Len(tp._left) = 2
    /\ CellAt(tp, -1) # Blank
    /\ ops = 3

----------------------------------------------------------------------------
(* C26: nothing happens after the halting state *)

\* In a trace the halting state occurs in no entry but the last.
C26_OnlyLast(cfs) == \A i \in 1..(Len(cfs) - 1) : cfs[i].state # tm.end

C26_Traces ==
    \A r \in Runs :
        /\ C26_OnlyLast(configs[r])
        /\ outcome[r].kind \in Final =>
              /\ C26_OnlyLast(outcome[r].configs)
              /\ (outcome[r].kind = "Halted" /\ log_configs[r]) =>
                    /\ Len(outcome[r].configs) >= 1
                    /\ outcome[r].configs[Len(outcome[r].configs)].state = tm.end

\* A call whose current state is the halting state leaves its tape, head,
\* state, step counter and trace as they are.
C26_NoStepAfterHalting ==
    \A r \in Runs :
        (outcome[r].kind # "NotStarted" /\ state[r] = tm.end) =>
            /\ tape[r]' = tape[r]
            /\ state[r]' = state[r]
            /\ step[r]' = step[r]
            /\ configs[r]' = configs[r]

\* C26: once the current state is the halting state the call reads, writes
\* and moves no more; in every trace, returned or carried by a failure, the
\* halting state occurs only in the last entry, and the last entry of the
\* trace a halted call returns has the halting state.
C26_HaltingStateIsLast == []C26_Traces /\ [][C26_NoStepAfterHalting]_vars

\* A recorded call returned after three steps or more, the halting state in
\* the last entry of its trace.
C26_Witness ==
    /\ log_configs[1]
    /\ outcome[1].kind = "Halted"
    /\ Len(outcome[1].configs) >= 4
    /\ outcome[1].configs[Len(outcome[1].configs)].state = tm.end

----------------------------------------------------------------------------
(* C27: what one step changes *)

C27_Size(t) == Len(t._left) + Len(t._right)

C27_Abs(n) == IF n < 0 THEN 0 - n ELSE n

\* A step of a call changes no materialized cell but the one under the head
\* at its start, appends at most one cell, a blank, at one end of the storage
\* and moves the head by at most one.
C27_StepChange ==
    \A r \in Runs :
        step[r]' = step[r] + 1 =>
            /\ \A p \in (-Len(tape[r]._left))..(Len(tape[r]._right) - 1) :
                  p # tape[r]._pos => CellAt(tape[r]', p) = CellAt(tape[r], p)
            /\ Len(tape[r]'._left) >= Len(tape[r]._left)
            /\ Len(tape[r]'._right) >= Len(tape[r]._right)
            /\ C27_Size(tape[r]') <= C27_Size(tape[r]) + 1
            /\ Len(tape[r]'._left) > Len(tape[r]._left) =>
                  CellAt(tape[r]', -Len(tape[r]'._left)) = Blank
            /\ Len(tape[r]'._right) > Len(tape[r]._right) =>
                  CellAt(tape[r]', Len(tape[r]'._right) - 1) = Blank
            /\ C27_Abs(tape[r]'._pos - tape[r]._pos) <= 1

\* After k steps the head is within k cells of position 0 and at most k cells
\* were added to the storage the input made.
C27_WithinSteps ==
    \A r \in Runs :
        outcome[r].kind # "NotStarted" =>
            /\ C27_Abs(tape[r]._pos) <= step[r]
            /\ C27_Size(tape[r]) <= C27_Size(TapeInit(input)) + step[r]

\* C27: one step changes the content of at most one cell, the one under the
\* head at its start, appends at most one blank cell at one end and moves the
\* head by at most one; so after k steps the head is within k cells of
\* position 0 and at most k cells were added.
C27_StepIsLocal == [][C27_StepChange]_vars /\ []C27_WithinSteps

\* Three steps each wrote a cell, moved the head left and added a cell.
C27_Witness ==
    /\ step[1] = 3
    /\ tape[1]._pos = -3
    /\ C27_Size(tape[1]) = C27_Size(TapeInit(input)) + 3
    /\ tape[1]._right # TapeInit(input)._right

----------------------------------------------------------------------------
(* C28: a call with log_configs=False beside a call with log_configs=True *)

\* Call 1 is made without the trace and call 2 with it.
C28_Unrecorded == ~log_configs[1] /\ log_configs[2]

\* Where the recorded call has an entry for the step count of the unrecorded
\* call, the unrecorded call is in the situation the entry shows.
C28_SameSteps ==
    (outcome[1].kind # "NotStarted" /\ step[1] < Len(configs[2])) =>
        TapeConfiguration(tape[1], state[1]) = configs[2][step[1] + 1]

\* Both calls over: as many steps, the same outcome kind, the same output and
\* the same state/symbol pair.
C28_SameOutcome ==
    (outcome[1].kind \in Final /\ outcome[2].kind \in Final) =>
        /\ step[1] = step[2]
        /\ outcome[1].kind = outcome[2].kind
        /\ outcome[1].kind = "Halted" => outcome[1].res = outcome[2].res
        /\ outcome[1].kind = "UndefinedTransition" => outcome[1].key = outcome[2].key

\* C28: for every machine and input the call with log_configs=False and the
\* call with log_configs=True execute the same sequence of steps and end in
\* the same outcome kind, with the same output when halted and the same
\* failure kind and state/symbol pair otherwise.
C28_TraceDoesNotInfluence == C28_Unrecorded => (C28_SameSteps /\ C28_SameOutcome)

\* The unrecorded call and the recorded call both halted after at least two
\* steps with the same non-empty output; only the recorded one has a trace.
C28_Witness ==
    /\ C28_Unrecorded
    /\ outcome[1].kind = "Halted" /\ outcome[2].kind = "Halted"
    /\ step[1] >= 2
    /\ outcome[1].res # <<>>
    /\ outcome[1].res = outcome[2].res
    /\ outcome[1].configs = NoTrace
    /\ Len(outcome[2].configs) = step[2] + 1

----------------------------------------------------------------------------
(* C29: the Configuration and the cells the storage holds *)

\* The cell at position p of the conceptual tape: a cell the lists do not
\* hold is blank.
C29_Cell(t, p) ==
    IF -Len(t._left) <= p /\ p < Len(t._right) THEN CellAt(t, p) ELSE Blank

\* The same head position and the same symbol in every cell.
C29_SameTape(a, b) ==
    /\ a._pos = b._pos
    /\ \A p \in (-Max(Len(a._left), Len(b._left)))..
                   (Max(Len(a._right), Len(b._right)) - 1) :
          C29_Cell(a, p) = C29_Cell(b, p)

\* C29: two tapes with the same head position that agree on every cell, an
\* unmaterialized cell read as blank, give equal Configurations for the same
\* state, whatever blank cells their lists hold at either end.
C29_MaterializationHidden ==
    (outcome[1].kind # "NotStarted" /\ outcome[2].kind # "NotStarted"
        /\ C29_SameTape(tape[1], tape[2])) =>
        \A st \in 1..3 :
            TapeConfiguration(tape[1], st) = TapeConfiguration(tape[2], st)

\* Two calls left the same tape with a symbol on it and the same head
\* position, in lists of different lengths.
C29_Witness ==
    /\ outcome[1].kind # "NotStarted" /\ outcome[2].kind # "NotStarted"
    /\ C29_SameTape(tape[1], tape[2])
    /\ Len(tape[1]._left) # Len(tape[2]._left)
    /\ Len(tape[1]._right) # Len(tape[2]._right)
    /\ \E p \in 0..(Len(tape[1]._right) - 1) : CellAt(tape[1], p) # Blank

----------------------------------------------------------------------------
(* C30: RAM.from_program and RAM.run *)

\* Every parsed statement with label n is at index n of the code tuple, index
\* 0 holds GOTO 1 when no statement has label 0, and an index without a
\* statement holds END.
C30_Placed(program) ==
    LET parsed == CodeOfLines(SplitLines(program), 0, <<>>)
        built  == RamFromProgram(program)
        labels == {parsed.items[i][1] : i \in DOMAIN parsed.items}
    IN  parsed.ok =>
            /\ \A i \in DOMAIN parsed.items :
                  /\ parsed.items[i][1] + 1 \in DOMAIN built.code
                  /\ built.code[parsed.items[i][1] + 1] = parsed.items[i][2].statement
            /\ 0 \notin labels => (built.code # <<>> /\ built.code[1] = GotoStatement(1))
            /\ \A n \in DOMAIN built.code :
                  (n - 1 \notin labels /\ n # 1) => built.code[n] = EndStatement

\* C30: from_program places every parsed statement with label n at index n of
\* code, so the program counter always indexes a statement of code during run
\* and every run ends by returning the registers at an END statement or with
\* TimeoutError once the iteration count reaches the limit.
C30_RunEndsAtEndOrTimeout ==
    ret # NoReturn =>
        /\ ret.ok \/ (ret.raised = "TimeoutError" /\ ret.during = "run")
        /\ AllCommands.ok => C30_Placed(call.args.program)

====
